---- MODULE Spec2Model ----
(***************************************************************************)
(* The convergence study of chapter4/convergence.ipynb: the solver oracle  *)
(* solve_poisson, the norm evaluators error_L2 and error_infinity, the     *)
(* experiment loops (cells 5, 7 and 9) and the rate computation            *)
(*     rates = np.log(Es[1:]/Es[:-1]) / np.log(hs[1:]/hs[:-1]).            *)
(*                                                                         *)
(* Numbers.  A float64 of the arrays Es and hs is kept as its class (zero, *)
(* finite, infinite, NaN), its sign and its binary exponent; the           *)
(* significand is dropped, so a finite value is s * 2^e.  A logarithm is   *)
(* kept in units of ln 2, and a rate, the quotient of two logarithms, as   *)
(* an exact fraction or as inf/NaN, following IEEE-754 as numpy does       *)
(* (division by zero and log of zero give infinities, 0/0 and the log of a *)
(* negative number give NaN, and none of them raises).                     *)
(*                                                                         *)
(* Fields.  A function space is (mesh, family, degree); a space of degree  *)
(* q has the degrees of freedom 1..q, and interpolating a field into it    *)
(* evaluates the field at the points 1..q.  DOF coefficients are integers. *)
(*                                                                         *)
(* Specifications.  Spec runs the notebook cell by cell, an evaluator call *)
(* being one step.  SpecRanks follows one evaluator call statement by      *)
(* statement on every MPI process.  SpecSynth runs the rate computation on *)
(* samples E = C * h^r.  SpecReplay runs the loop of cell 7 on the errors  *)
(* and rates the notebook records as its output.                           *)
(*                                                                         *)
(* The other notebooks each have a variable and specifications of their    *)
(* own: SpecFund (fundamentals, the errors of cells 11-12 on every         *)
(* process), SpecHeat and SpecHeatLive (diffusion, the time loop),         *)
(* SpecNewton (nonlinear Poisson, solve, assertion and errors), SpecTag,   *)
(* SpecMu, SpecBcast and SpecBcastLive (electromagnetics: the tagging of   *)
(* the fragments, the material loop, the broadcast of the cell type),      *)
(* SpecFiles and SpecKappa (subdomains: the XDMF files written by rank 0   *)
(* and read by all, the two definitions of kappa).                         *)
(***************************************************************************)
EXTENDS Integers, Sequences, FiniteSets, TLC

\* ------------------------------------------------------------------ bounds

\* Longest list of resolutions Ns given to the experiment loops.
MaxLen == 3

\* Largest deviation (in coefficient units) of a discrete solution from the
\* interpolant of the exact solution.
MaxCoef == 2

\* Number of MPI processes the mesh is distributed over.
NRanks == 2

\* Largest absolute value of the rate r of a synthetic sample sequence
\* E_i = C * h_i^r.
MaxRate == 3

\* Largest absolute value of the binary exponent of its constant C.
MaxExpC == 2

\* Number of degrees of freedom kept of the mesh of the fundamentals
\* notebook.
FundDofs == 3

\* --------------------------------------------------------------- constants

\* The subdivision counts a list Ns is drawn from: the first entries of
\* Ns = [4, 8, 16, 32, 64].
Resolutions == {4, 8, 16}

\* uh, u_ex = solve_poisson(10) of the first error computation.
InitialN == 10

\* degrees = [1, 2, 3, 4], cut after its second entry.
degrees == <<1, 2>>

\* def error_L2(uh, u_ex, degree_raise=3)
DegreeRaise == 3

Ranks == 1..NRanks

\* ------------------------------------------------------------------ floats

FZero == [k |-> "zero", s |-> 1, e |-> 0]
FNaN == [k |-> "nan", s |-> 1, e |-> 0]
FInf(sgn) == [k |-> "inf", s |-> sgn, e |-> 0]
FPow(sgn, ex) == [k |-> "fin", s |-> sgn, e |-> ex]

RNaN == [k |-> "nan", n |-> 0, d |-> 1]
RInf(sgn) == [k |-> "inf", n |-> sgn, d |-> 1]
RFin(num, den) == [k |-> "fin", n |-> num, d |-> den]

Abs(x) == IF x < 0 THEN -x ELSE x

Sign(x) == IF x < 0 THEN -1 ELSE IF x > 0 THEN 1 ELSE 0

RECURSIVE GCD(_, _)
GCD(a, b) == IF b = 0 THEN a ELSE GCD(b, a % b)

\* floor(log2(n)) for n >= 1: the binary exponent of the float holding n.
RECURSIVE FloorLog2(_)
FloorLog2(n) == IF n <= 1 THEN 0 ELSE 1 + FloorLog2(n \div 2)

\* The fraction num/den in lowest terms with a positive denominator.
Fraction(num, den) ==
    LET g == GCD(Abs(num), Abs(den))
    IN  RFin(Sign(den) * (num \div g), Abs(den) \div g)

\* float64 true division a / b (numpy: no exception, IEEE special values).
FDiv(a, b) ==
    IF a.k = "nan" \/ b.k = "nan" THEN FNaN
    ELSE IF a.k = "fin" /\ b.k = "fin" THEN FPow(a.s * b.s, a.e - b.e)
    ELSE IF a.k = "zero" /\ b.k = "zero" THEN FNaN
    ELSE IF a.k = "inf" /\ b.k = "inf" THEN FNaN
    ELSE IF a.k = "zero" \/ b.k = "inf" THEN FZero
    ELSE FInf(a.s * b.s)

\* np.log(a), in units of ln 2.
FLog(a) ==
    IF a.k = "nan" THEN RNaN
    ELSE IF a.k = "zero" THEN RInf(-1)
    ELSE IF a.s < 0 THEN RNaN
    ELSE IF a.k = "inf" THEN RInf(1)
    ELSE RFin(a.e, 1)

\* float64 true division of two logarithms x / y.
RDiv(x, y) ==
    IF x.k = "nan" \/ y.k = "nan" THEN RNaN
    ELSE IF x.k = "inf" /\ y.k = "inf" THEN RNaN
    ELSE IF y.k = "inf" THEN RFin(0, 1)
    ELSE IF x.k = "inf" THEN RInf(IF y.n < 0 THEN -x.n ELSE x.n)
    ELSE IF y.n = 0 THEN (IF x.n = 0 THEN RNaN ELSE RInf(Sign(x.n)))
    ELSE Fraction(x.n * y.d, x.d * y.n)

\* np.sqrt(n) of a non-negative integer n.
FSqrt(n) == IF n = 0 THEN FZero ELSE FPow(1, FloorLog2(n) \div 2)

\* The float holding the integer n.
FInt(n) == IF n = 0 THEN FZero ELSE FPow(Sign(n), FloorLog2(Abs(n)))

\* Mutant of FRecip: the mesh size is taken to be N itself.
FScale(N) == FPow(1, FloorLog2(N))

\* 1. / N for a positive power of two N.
FRecip(N) == FPow(1, -FloorLog2(N))

\* ------------------------------------------------------ fields and spaces

\* FunctionSpace(mesh, (family, degree)); the mesh is named by its N.
FunctionSpace(mesh, family, degree) ==
    [mesh |-> mesh, family |-> family, degree |-> degree]

\* Number of degrees of freedom of a space (its interpolation points 1..q).
NDofs(V) == V.degree

\* Function(V): a new function of V, all coefficients zero.
Function(V) == [space |-> V, array |-> [j \in 1..NDofs(V) |-> 0]]

\* u_ex(mod): the exact solution at interpolation point x.
ExactAt(x) == x

\* The three objects an evaluator may be handed as exact solution:
\* u_numpy (a python function), u_ufl(x) (a ufl expression), anything else.
U_numpy == [kind |-> "callable"]
U_ufl == [kind |-> "ufl"]
U_other == [kind |-> "other"]

\* No function held yet (a name not bound).
None == [space |-> FunctionSpace(0, "none", 0), array |-> <<>>]

\* The degree of the last entry of degrees.
MaxDegree == degrees[Len(degrees)]

\* Deviation of the degree-p solution from the interpolant of the exact
\* solution, for a mesh whose error amplitude is amp.
Deviation(p, amp) == amp * (MaxDegree + 1 - p)

\* solve_poisson(N, degree) on a mesh whose error amplitude is amp: the
\* discrete solution in V = FunctionSpace(mesh, ("CG", degree)) and the
\* exact solution as a ufl expression.
solve_poisson(N, degree, amp) ==
    [uh |-> [space |-> FunctionSpace(N, "CG", degree),
             array |-> [j \in 1..degree |->
                           ExactAt(j) + (IF j = degree
                                         THEN Deviation(degree, amp)
                                         ELSE 0)]],
     u_ex |-> U_ufl]

\* The value at point x of a function g of a space of degree p: its own
\* coefficient at a point of its space, and beyond them the polynomial
\* continuation, which carries the deviation of the last coefficient.
EvalFunction(g, x) ==
    LET p == NDofs(g.space)
    IN  IF x <= p THEN g.array[x]
        ELSE ExactAt(x) + (g.array[p] - ExactAt(p))

\* u.interpolate(g) for a Function g: the coefficients of g in W.
InterpolateFunction(W, g) ==
    [space |-> W, array |-> [j \in 1..NDofs(W) |-> EvalFunction(g, j)]]

\* u.interpolate(u_expr) / u.interpolate(u_ex) for the exact solution.
InterpolateExact(W) ==
    [space |-> W, array |-> [j \in 1..NDofs(W) |-> ExactAt(j)]]

\* The degrees of freedom of an n-dof space whose integration weight lies
\* on process r (every degree of freedom on exactly one process).
OwnedDofs(r, n) == {j \in 1..n : (j % NRanks) = (r % NRanks)}

\* The entries of x.array on process r: the owned degrees of freedom and
\* the ghosts (the first degree of freedom is shared by all processes).
LocalDofs(r, n) == OwnedDofs(r, n) \cup {1}

RECURSIVE SumOver(_, _)
SumOver(f, S) ==
    IF S = {} THEN 0
    ELSE LET x == CHOOSE y \in S : TRUE
         IN  f[x] + SumOver(f, S \ {x})

MaxOf(S) == CHOOSE m \in S : \A y \in S : y <= m

\* Mutant of assemble_scalar: only the first degree of freedom is
\* integrated.
assemble_first_dof(e, r) ==
    SumOver([j \in 1..NDofs(e.space) |-> e.array[j] * e.array[j]],
            OwnedDofs(r, NDofs(e.space)) \cap {1})

\* assemble_scalar(form(inner(e, e) * dx)) on process r (unit weights).
assemble_scalar(e, r) ==
    SumOver([j \in 1..NDofs(e.space) |-> e.array[j] * e.array[j]],
            OwnedDofs(r, NDofs(e.space)))

\* Mutant of AllReduceSum: nothing is reduced, the scalar of the first
\* process is taken for the sum.
ScalarOfFirst(local) == local[1]

\* comm.allreduce(local, op=MPI.SUM)
AllReduceSum(local) == SumOver(local, Ranks)

\* Mutant of AllReduceMax: nothing is reduced, the maximum of the first
\* process is taken for the maximum.
MaxOfFirst(local) == local[1]

\* comm.allreduce(local, op=MPI.MAX)
AllReduceMax(local) == MaxOf({local[r] : r \in Ranks})

\* ---------------------------------------------------------- norm evaluators

\* One step of an evaluator: what it did, in which space, to which argument.
Step(op, V, arg) == [op |-> op, space |-> V, arg |-> arg]

\* Mutant of IsUflExpr: whatever is not a python function is taken for a
\* ufl expression.
IsNotCallable(u_ex_) == u_ex_.kind # "callable"

\* isinstance(u_ex, ufl.core.expr.Expr)
IsUflExpr(u_ex_) == u_ex_.kind = "ufl"

\* Function.interpolate(u_ex) accepts a python function (and an Expression
\* built from a ufl expression); handed anything else it raises TypeError.
InterpolateRaises(u_ex_) == u_ex_.kind \notin {"callable", "ufl"}

\* Mutant of HigherOrderSpace: the degree is not raised.
SameOrderSpace(uh_, degree_raise) ==
    FunctionSpace(uh_.space.mesh, uh_.space.family, uh_.space.degree)

\* The higher order space W of error_L2.
HigherOrderSpace(uh_, degree_raise) ==
    LET degree == uh_.space.degree
        family == uh_.space.family
        mesh == uh_.space.mesh
    IN  FunctionSpace(mesh, family, degree + degree_raise)

\* The steps by which an evaluator interpolates the exact solution into V:
\* through an Expression for a ufl expression, directly otherwise.
InterpolateExactSteps(V, u_ex_) ==
    IF IsUflExpr(u_ex_)
    THEN <<Step("Expression", V, "u_ex"), Step("interpolate", V, "u_ex")>>
    ELSE <<Step("interpolate", V, "u_ex")>>

\* e_W.x.array[:] = u_W.x.array - u_ex_W.x.array
Difference(W, u_W, u_ex_W) ==
    [space |-> W,
     array |-> [j \in 1..NDofs(W) |-> u_W.array[j] - u_ex_W.array[j]]]

\* error_L2(uh, u_ex, degree_raise): what the call raises, the value it
\* returns, the steps it took and the functions it created.
error_L2(uh_, u_ex_, degree_raise) ==
    LET W == HigherOrderSpace(uh_, degree_raise)
        u_W == InterpolateFunction(W, uh_)
        first == <<Step("FunctionSpace", W, "uh"),
                   Step("interpolate", W, "uh")>>
                   \o InterpolateExactSteps(W, u_ex_)
    IN  IF InterpolateRaises(u_ex_)
        THEN [name |-> "error_L2", raised |-> "TypeError", value |-> FNaN,
              steps |-> first, u_W |-> u_W, u_ex_W |-> Function(W),
              e_W |-> Function(W), uh |-> uh_, u_ex |-> u_ex_]
        ELSE LET u_ex_W == InterpolateExact(W)
                 e_W == Difference(W, u_W, u_ex_W)
                 error_local == [r \in Ranks |-> assemble_scalar(e_W, r)]
                 error_global == AllReduceSum(error_local)
             IN  [name |-> "error_L2", raised |-> "none",
                  value |-> FSqrt(error_global),
                  steps |-> first \o <<Step("subtract", W, "e_W"),
                                       Step("assemble_scalar", W, "e_W"),
                                       Step("allreduce", W, "SUM"),
                                       Step("sqrt", W, "error_global")>>,
                  u_W |-> u_W, u_ex_W |-> u_ex_W, e_W |-> e_W,
                  uh |-> uh_, u_ex |-> u_ex_]

\* np.max(np.abs(u_h.x.array - u_ex_V.x.array)) on process r.
error_max_local(u_h, u_ex_V, r) ==
    MaxOf({Abs(u_h.array[j] - u_ex_V.array[j]) :
              j \in LocalDofs(r, NDofs(u_h.space))})

\* error_infinity(u_h, u_ex)
error_infinity(u_h, u_ex_) ==
    LET V == u_h.space
        first == InterpolateExactSteps(V, u_ex_)
    IN  IF InterpolateRaises(u_ex_)
        THEN [name |-> "error_infinity", raised |-> "TypeError",
              value |-> FNaN, steps |-> first, u_W |-> u_h,
              u_ex_W |-> Function(V), e_W |-> Function(V),
              uh |-> u_h, u_ex |-> u_ex_]
        ELSE LET u_ex_V == InterpolateExact(V)
                 local == [r \in Ranks |-> error_max_local(u_h, u_ex_V, r)]
                 error_max == AllReduceMax(local)
             IN  [name |-> "error_infinity", raised |-> "none",
                  value |-> FInt(error_max),
                  steps |-> first \o <<Step("max_abs", V, "local"),
                                       Step("allreduce", V, "MAX")>>,
                  u_W |-> u_h, u_ex_W |-> u_ex_V,
                  e_W |-> Difference(V, u_h, u_ex_V),
                  uh |-> u_h, u_ex |-> u_ex_]

\* No evaluator has been called yet.
NoEval ==
    [name |-> "none", raised |-> "none", value |-> FNaN, steps |-> <<>>,
     u_W |-> None, u_ex_W |-> None, e_W |-> None, uh |-> None,
     u_ex |-> U_ufl]

\* ------------------------------------------------------------------- rates

\* a[1:] and a[:-1] of a numpy array.
DropFirst(a) == SubSeq(a, 2, Len(a))

DropLast(a) == SubSeq(a, 1, Len(a) - 1)

\* Elementwise a / b and np.log(a) of arrays of one length.
ArrayDiv(a, b) == [j \in 1..Len(a) |-> FDiv(a[j], b[j])]

ArrayLog(a) == [j \in 1..Len(a) |-> FLog(a[j])]

ArrayRDiv(a, b) == [j \in 1..Len(a) |-> RDiv(a[j], b[j])]

\* Mutant of Rates: every rate is taken against the first sample instead of
\* the preceding one.
RatesAgainstFirst(Es_, hs_) ==
    LET n == Len(DropFirst(Es_))
    IN  ArrayRDiv(ArrayLog(ArrayDiv(DropFirst(Es_), [j \in 1..n |-> Es_[1]])),
                  ArrayLog(ArrayDiv(DropFirst(hs_), [j \in 1..n |-> hs_[1]])))

\* Mutant of Rates: rates that are not finite are replaced by 0
\* (np.nan_to_num).
RatesNanToNum(Es_, hs_) ==
    LET r == ArrayRDiv(ArrayLog(ArrayDiv(DropFirst(Es_), DropLast(Es_))),
                       ArrayLog(ArrayDiv(DropFirst(hs_), DropLast(hs_))))
    IN  [j \in 1..Len(r) |-> IF r[j].k = "fin" THEN r[j] ELSE RFin(0, 1)]

\* Mutant of Rates: the pairs whose mesh size does not decrease are left
\* out.
RatesOfDecreasing(Es_, hs_) ==
    LET r == ArrayRDiv(ArrayLog(ArrayDiv(DropFirst(Es_), DropLast(Es_))),
                       ArrayLog(ArrayDiv(DropFirst(hs_), DropLast(hs_))))
        keep == {j \in 1..Len(r) : hs_[j + 1].e < hs_[j].e}
    IN  [j \in 1..Len(r) |-> IF j \in keep THEN r[j] ELSE RFin(0, 1)]

\* Mutant of Rates: a rate 0 is given to the first sample as well.
RatesWithFirst(Es_, hs_) ==
    IF Len(Es_) = 0 THEN <<>>
    ELSE <<RFin(0, 1)>>
         \o ArrayRDiv(ArrayLog(ArrayDiv(DropFirst(Es_), DropLast(Es_))),
                      ArrayLog(ArrayDiv(DropFirst(hs_), DropLast(hs_))))

\* Mutant of Rates: the quotient is inverted, ln(h ratio) over
\* ln(E ratio).
RatesInverted(Es_, hs_) ==
    ArrayRDiv(ArrayLog(ArrayDiv(DropFirst(hs_), DropLast(hs_))),
              ArrayLog(ArrayDiv(DropFirst(Es_), DropLast(Es_))))

\* rates = np.log(Es[1:]/Es[:-1]) / np.log(hs[1:]/hs[:-1])
Rates(Es_, hs_) ==
    ArrayRDiv(ArrayLog(ArrayDiv(DropFirst(Es_), DropLast(Es_))),
              ArrayLog(ArrayDiv(DropFirst(hs_), DropLast(hs_))))

\* np.zeros(n)
Zeros(n) == [j \in 1..n |-> FZero]

\* Mutant of SetItem: the value is written to the whole of a[:k + 1].
SetItemUpTo(a, k, v) == [j \in 1..Len(a) |-> IF j <= k + 1 THEN v ELSE a[j]]

\* Mutant of SetItem: the array is filled from its end.
SetItemFromEnd(a, k, v) == [a EXCEPT ![Len(a) - k] = v]

\* a[k] = v for an array a and a position k counted from 0.
SetItem(a, k, v) == [a EXCEPT ![k + 1] = v]

\* ------------------------------------------------------------ the notebook

VARIABLES
    Ns,        \* the list of resolutions of the experiment loops
    pc,        \* "cell2", "alloc", "loop", "rated", "done" or "failed"
    study,     \* 1: cells 5-6 (L2, degree 1), 2: cell 7 (L2), 3: cell 9 (inf)
    dIdx,      \* position in degrees of the degree under study
    i,         \* number of resolutions of the current loop already done
    Es,        \* the error array of the current loop
    hs,        \* the mesh size array of the current loop
    rates,     \* the last rate array computed
    uh,        \* the discrete solution the name uh is bound to
    u_ex,      \* the exact solution the name u_ex is bound to
    amps,      \* the error amplitude of every mesh solved so far
    calls,     \* the calls of solve_poisson made, in order
    lastEval,  \* the last call of an evaluator
    out,       \* the lines printed by rank 0 in the experiment loops
    err,       \* the exception that ended the run, or "none"
    job,       \* the evaluator call followed process by process
    frames,    \* the names of that call on every process
    arrived,   \* the processes that have entered the all-reduce of that call
    rec,       \* the replay of the recorded run of cell 7
    synth,     \* the constants C and r of a synthetic sample sequence
    fund,      \* the error cells of chapter1/fundamentals_code.ipynb
    heat,      \* the time loop of the diffusion notebook
    newton,    \* the solve of chapter2/nonlinpoisson_code.ipynb
    em,        \* the electromagnetics notebook
    sub        \* chapter3/neumann_dirichlet_code.ipynb (subdomains)

vars == <<Ns, pc, study, dIdx, i, Es, hs, rates, uh, u_ex, amps,
          calls, lastEval, out, err>>

\* What the experiment loops leave alone: the call followed process by
\* process and the replay of the recorded run.
aux == <<job, frames, arrived, rec, synth, fund, heat, newton, em, sub>>

\* The other notebooks.
books == <<fund, heat, newton, em, sub>>

\* A notebook that is not run.
NotRun == [at |-> "idle"]

BooksIdle ==
    /\ fund = NotRun
    /\ heat = NotRun
    /\ newton = NotRun
    /\ em = NotRun
    /\ sub = NotRun

\* All lists of at most n resolutions.
ListsUpTo(n) == UNION {[1..m -> Resolutions] : m \in 0..n}

Range(f) == {f[x] : x \in DOMAIN f}

\* The degree of the current loop: degree=1 in cell 5, the loop variable of
\* "for degree in degrees" in cells 7 and 9.
CurDegree == IF study = 1 THEN 1 ELSE degrees[dIdx]

\* Mutant of Evaluate: the L2 evaluator raises the degree by the position
\* of the call in its loop.
EvaluateByPosition(u_h, exact) ==
    IF study = 3 THEN error_infinity(u_h, exact)
    ELSE error_L2(u_h, exact, i + 1)

\* Mutant of Evaluate: every loop calls error_L2.
EvaluateL2Only(u_h, exact) == error_L2(u_h, exact, DegreeRaise)

\* The evaluator call of the current loop: error_L2(uh, u_numpy) in cell 5,
\* error_L2(uh, u_numpy, degree_raise=3) in cell 7 and
\* error_infinity(uh, u_numpy) in cell 9.

Evaluate(u_h, exact) ==
    IF study = 1 THEN error_L2(u_h, exact, DegreeRaise)
    ELSE IF study = 2 THEN error_L2(u_h, exact, 3)
    ELSE error_infinity(u_h, exact)

\* The objects a loop may hand to its evaluator as exact solution: u_numpy
\* as written ("One can send in either u_numpy or u_ex"), u_ex, or an
\* object of another kind.
ExactArgs == {U_numpy, U_ufl, U_other}

\* The solve_poisson call of the first error computation.
InitialCall ==
    [N |-> InitialN, degree |-> 1, study |-> 0, raised |-> FALSE,
     norms |-> {}]

\* solve_poisson is deterministic: a mesh solved before has the amplitude
\* it had then.
AmpChoices(N) == IF N \in DOMAIN amps THEN {amps[N]} ELSE 0..MaxCoef

Remember(N, a) ==
    [M \in DOMAIN amps \cup {N} |-> IF M = N THEN a ELSE amps[M]]

\* A call of solve_poisson in a loop that returned, with the evaluators its
\* solution pair was handed to.
Call(N, degree, norms) ==
    [N |-> N, degree |-> degree, study |-> study, raised |-> FALSE,
     norms |-> norms]

\* A call of solve_poisson that raised.
RaisedCall(N, degree, st) ==
    [N |-> N, degree |-> degree, study |-> st, raised |-> TRUE, norms |-> {}]

SampleLine(h, E) ==
    [line |-> "sample", study |-> study, degree |-> CurDegree,
     h |-> h, E |-> E, rates |-> <<>>]

RatesLine(r) ==
    [line |-> "rates", study |-> study, degree |-> CurDegree,
     h |-> FNaN, E |-> FNaN, rates |-> r]

\* A call of an evaluator: its name and its arguments.
Job(name, uh_, u_ex_, degree_raise) ==
    [name |-> name, uh |-> uh_, u_ex |-> u_ex_,
     degree_raise |-> degree_raise]

\* The names of an evaluator call on one process: its arguments, the
\* functions it creates (u_ex_W is u_ex_V in error_infinity), its local and
\* its reduced scalar (error_max_local and error_max there) and what it
\* returns.
Frame(at, uh_, u_ex_) ==
    [at |-> at, uh |-> uh_, u_ex |-> u_ex_, u_W |-> None, u_ex_W |-> None,
     e_W |-> None, error_local |-> 0, error_global |-> 0,
     returned |-> FNaN]

\* No call is followed, no run is replayed, no sequence is synthetic.
NoJob == Job("none", None, U_ufl, 0)

NoFrames == [r \in Ranks |-> Frame("idle", None, U_ufl)]

NoReplay ==
    [at |-> "idle", degree |-> 0, first |-> 1, last |-> 0, seen |-> 0,
     Es |-> <<>>, rates |-> <<>>]

NoSynth == [C |-> FNaN, r |-> 0]

AuxIdle ==
    /\ job = NoJob
    /\ frames = NoFrames
    /\ arrived = {}
    /\ rec = NoReplay
    /\ synth = NoSynth
    /\ BooksIdle

\* The notebook before cell 2 is run.
Fresh ==
    /\ pc = "cell2"
    /\ study = 1
    /\ dIdx = 1
    /\ i = 0
    /\ Es = <<>>
    /\ hs = <<>>
    /\ rates = <<>>
    /\ uh = None
    /\ u_ex = U_ufl
    /\ amps = <<>>
    /\ calls = <<>>
    /\ lastEval = NoEval
    /\ out = <<>>
    /\ err = "none"

Init ==
    /\ Ns \in ListsUpTo(MaxLen)
    /\ Fresh
    /\ AuxIdle

\* Cell 2: uh, u_ex = solve_poisson(10); comm = uh.function_space.mesh.comm
\* (the error it prints is not kept).
InitialSolve ==
    /\ pc = "cell2"
    /\ \E a \in 0..MaxCoef :
          LET pair == solve_poisson(InitialN, 1, a)
          IN  /\ uh' = pair.uh
              /\ u_ex' = pair.u_ex
    /\ calls' = Append(calls, InitialCall)
    /\ pc' = "alloc"
    /\ UNCHANGED <<Ns, study, dIdx, i, Es, hs, rates, amps,
                   lastEval, out, err>>
    /\ UNCHANGED aux

\* Mutant of Allocate: arrays of the right length are kept from the loop
\* before instead of being created anew.
AllocateOnce ==
    /\ pc = "alloc"
    /\ Es' = IF Len(Es) = Len(Ns) THEN Es ELSE Zeros(Len(Ns))
    /\ hs' = IF Len(hs) = Len(Ns) THEN hs ELSE Zeros(Len(Ns))
    /\ i' = 0
    /\ pc' = "loop"
    /\ UNCHANGED <<Ns, study, dIdx, rates, uh, u_ex, amps, calls,
                   lastEval, out, err>>
    /\ UNCHANGED aux

\* Es = np.zeros(len(Ns)); hs = np.zeros(len(Ns)) at the head of a loop.
Allocate ==
    /\ pc = "alloc"
    /\ Es' = Zeros(Len(Ns))
    /\ hs' = Zeros(Len(Ns))
    /\ i' = 0
    /\ pc' = "loop"
    /\ UNCHANGED <<Ns, study, dIdx, rates, uh, u_ex, amps, calls,
                   lastEval, out, err>>
    /\ UNCHANGED aux

\* Mutant of Iterate: the solution pair is released at the end of the pass
\* (del uh, u_ex).
IterateReleasing ==
    /\ pc = "loop"
    /\ i < Len(Ns)
    /\ LET N == Ns[i + 1]
       IN  \E a \in AmpChoices(N), exact \in ExactArgs :
              \E pair \in {solve_poisson(N, CurDegree, a)} :
              \E r \in {Evaluate(pair.uh, exact)} :
                  /\ r.raised = "none"
                  /\ amps' = Remember(N, a)
                  /\ uh' = None
                  /\ u_ex' = U_ufl
                  /\ calls' = Append(calls, Call(N, CurDegree, {r.name}))
                  /\ lastEval' = r
                  /\ Es' = SetItem(Es, i, r.value)
                  /\ hs' = SetItem(hs, i, FRecip(N))
                  /\ out' = Append(out, SampleLine(FRecip(N), r.value))
    /\ i' = i + 1
    /\ UNCHANGED <<Ns, pc, study, dIdx, rates, err>>
    /\ UNCHANGED aux

\* One pass of "for i, N in enumerate(Ns)": solve, evaluate, record, print.
Iterate ==
    /\ pc = "loop"
    /\ i < Len(Ns)
    /\ LET N == Ns[i + 1]
       IN  \E a \in AmpChoices(N), exact \in ExactArgs :
              \E pair \in {solve_poisson(N, CurDegree, a)} :
              \E r \in {Evaluate(pair.uh, exact)} :
                  /\ r.raised = "none"
                  /\ amps' = Remember(N, a)
                  /\ uh' = pair.uh
                  /\ u_ex' = pair.u_ex
                  /\ calls' = Append(calls, Call(N, CurDegree, {r.name}))
                  /\ lastEval' = r
                  /\ Es' = SetItem(Es, i, r.value)
                  /\ hs' = SetItem(hs, i, FRecip(N))
                  /\ out' = Append(out, SampleLine(FRecip(N), r.value))
    /\ i' = i + 1
    /\ UNCHANGED <<Ns, pc, study, dIdx, rates, err>>
    /\ UNCHANGED aux

\* A pass in which the evaluator raises: the exception ends the run.
IterateEvaluatorRaises ==
    /\ pc = "loop"
    /\ i < Len(Ns)
    /\ LET N == Ns[i + 1]
       IN  \E a \in AmpChoices(N), exact \in ExactArgs :
              \E pair \in {solve_poisson(N, CurDegree, a)} :
              \E r \in {Evaluate(pair.uh, exact)} :
                  /\ r.raised # "none"
                  /\ amps' = Remember(N, a)
                  /\ uh' = pair.uh
                  /\ u_ex' = pair.u_ex
                  /\ calls' = Append(calls, Call(N, CurDegree, {r.name}))
                  /\ lastEval' = r
                  /\ err' = r.raised
    /\ pc' = "failed"
    /\ UNCHANGED <<Ns, study, dIdx, i, Es, hs, rates, out>>
    /\ UNCHANGED aux

\* The (N, degree) pairs solve_poisson has solved.
Solved == {<<c.N, c.degree>> : c \in {x \in Range(calls) : ~x.raised}}

\* Mutant of IterateSolverRaises: the exception is caught and the loop goes
\* on with the next resolution.
IterateSolverSkips ==
    /\ pc = "loop"
    /\ i < Len(Ns)
    /\ <<Ns[i + 1], CurDegree>> \notin Solved
    /\ calls' = Append(calls, RaisedCall(Ns[i + 1], CurDegree, study))
    /\ err' = "SolverError"
    /\ i' = i + 1
    /\ UNCHANGED <<Ns, pc, study, dIdx, Es, hs, rates, uh, u_ex, amps,
                   lastEval, out>>
    /\ UNCHANGED aux

\* A pass in which solve_poisson raises (LinearProblem.solve fails): the
\* exception leaves the loop and the cell, nothing is assigned.
IterateSolverRaises ==
    /\ pc = "loop"
    /\ i < Len(Ns)
    /\ <<Ns[i + 1], CurDegree>> \notin Solved
    /\ calls' = Append(calls, RaisedCall(Ns[i + 1], CurDegree, study))
    /\ err' = "SolverError"
    /\ pc' = "failed"
    /\ UNCHANGED <<Ns, study, dIdx, i, Es, hs, rates, uh, u_ex,
                   amps, lastEval, out>>
    /\ UNCHANGED aux

\* Cell 2 with solve_poisson raising.
InitialSolveRaises ==
    /\ pc = "cell2"
    /\ calls' = Append(calls, RaisedCall(InitialN, 1, 0))
    /\ err' = "SolverError"
    /\ pc' = "failed"
    /\ UNCHANGED <<Ns, study, dIdx, i, Es, hs, rates, uh, u_ex,
                   amps, lastEval, out>>
    /\ UNCHANGED aux

\* After the loop: rates = np.log(Es[1:]/Es[:-1])/np.log(hs[1:]/hs[:-1])
\* and its print.
ComputeRates ==
    /\ pc = "loop"
    /\ i = Len(Ns)
    /\ rates' = Rates(Es, hs)
    /\ out' = Append(out, RatesLine(Rates(Es, hs)))
    /\ pc' = "rated"
    /\ UNCHANGED <<Ns, study, dIdx, i, Es, hs, uh, u_ex, amps,
                   calls, lastEval, err>>
    /\ UNCHANGED aux

\* "for degree in degrees" takes its next degree, or the next cell begins.
NextDegree ==
    /\ pc = "rated"
    /\ IF study = 1
       THEN /\ study' = 2
            /\ dIdx' = 1
            /\ pc' = "alloc"
       ELSE IF dIdx < Len(degrees)
       THEN /\ study' = study
            /\ dIdx' = dIdx + 1
            /\ pc' = "alloc"
       ELSE IF study = 2
       THEN /\ study' = 3
            /\ dIdx' = 1
            /\ pc' = "alloc"
       ELSE /\ study' = study
            /\ dIdx' = dIdx
            /\ pc' = "done"
    /\ UNCHANGED <<Ns, i, Es, hs, rates, uh, u_ex, amps, calls,
                   lastEval, out, err>>
    /\ UNCHANGED aux

Next ==
    \/ InitialSolve
    \/ InitialSolveRaises
    \/ Allocate
    \/ Iterate
    \/ IterateEvaluatorRaises
    \/ IterateSolverRaises
    \/ ComputeRates
    \/ NextDegree

Spec == Init /\ [][Next]_vars

\* ----------------------------------------- an evaluator call, by process

\* Every process runs the statements of the evaluator on its part of the
\* mesh.  The all-reduce is a collective of MPI: a process leaves it with
\* the reduced value once every process has entered it, whether or not the
\* other processes have left it.

\* Mutant of Bind: the interpolation into W is made in place, in the
\* approximate solution.
BindInPlace(f, name, v) ==
    IF name = "u_W" THEN [f EXCEPT !["uh"] = v, !["u_W"] = v]
    ELSE [f EXCEPT ![name] = v]

\* name = v, name.interpolate(...) and name.x.array[:] = ...: from now on
\* the object of that name holds v.
Bind(f, name, v) == [f EXCEPT ![name] = v]

\* The calls followed: either evaluator, handed a solution of
\* solve_poisson and any object as exact solution.
Jobs ==
    {Job(name, solve_poisson(N, degree, amp).uh, exact, DegreeRaise) :
        name \in {"error_L2", "error_infinity"}, N \in Resolutions,
        degree \in Range(degrees), amp \in 0..MaxCoef, exact \in ExactArgs}

InitRanks ==
    /\ Ns = <<>>
    /\ Fresh
    /\ job \in Jobs
    /\ frames = [r \in Ranks |-> Frame("called", job.uh, job.u_ex)]
    /\ arrived = {}
    /\ rec = NoReplay
    /\ synth = NoSynth
    /\ BooksIdle

\* The space the exact solution is interpolated into: W in error_L2, the
\* space of u_h in error_infinity.
TargetSpace(f) ==
    IF job.name = "error_L2" THEN HigherOrderSpace(f.uh, job.degree_raise)
    ELSE f.uh.space

\* error_L2 up to u_ex_W.interpolate, error_infinity up to
\* u_ex_V.interpolate: the call ends here when interpolate raises.
Interpolate(r) ==
    /\ frames[r].at = "called"
    /\ LET f == frames[r]
           W == TargetSpace(f)
           f1 == IF job.name = "error_L2"
                 THEN Bind(f, "u_W", InterpolateFunction(W, f.uh))
                 ELSE f
           f2 == IF InterpolateRaises(f.u_ex)
                 THEN Bind(Bind(f1, "u_ex_W", Function(W)), "at", "raised")
                 ELSE Bind(Bind(f1, "u_ex_W", InterpolateExact(W)),
                           "at", "interpolated")
       IN  frames' = [frames EXCEPT ![r] = f2]
    /\ UNCHANGED <<job, arrived, rec, synth>>
    /\ UNCHANGED books
    /\ UNCHANGED vars

\* e_W and error_local = assemble_scalar(error) of error_L2,
\* error_max_local of error_infinity.
Integrate(r) ==
    /\ frames[r].at = "interpolated"
    /\ LET f == frames[r]
           f1 == IF job.name = "error_L2"
                 THEN LET g == Bind(f, "e_W",
                                    Difference(f.u_W.space, f.u_W, f.u_ex_W))
                      IN  Bind(g, "error_local", assemble_scalar(g.e_W, r))
                 ELSE Bind(f, "error_local",
                           error_max_local(f.uh, f.u_ex_W, r))
       IN  frames' = [frames EXCEPT ![r] = Bind(f1, "at", "local")]
    /\ UNCHANGED <<job, arrived, rec, synth>>
    /\ UNCHANGED books
    /\ UNCHANGED vars

\* comm.allreduce(...) is called: the local scalar of the process enters
\* the reduction.
EnterAllReduce(r) ==
    /\ frames[r].at = "local"
    /\ frames' = [frames EXCEPT ![r] = Bind(frames[r], "at", "allreduce")]
    /\ arrived' = arrived \cup {r}
    /\ UNCHANGED <<job, rec, synth>>
    /\ UNCHANGED books
    /\ UNCHANGED vars

\* comm.allreduce(...) returns on process r, every process having entered.
LeaveAllReduce(r) ==
    /\ frames[r].at = "allreduce"
    /\ arrived = Ranks
    /\ LET local == [q \in Ranks |-> frames[q].error_local]
           reduced == IF job.name = "error_L2" THEN AllReduceSum(local)
                      ELSE AllReduceMax(local)
       IN  frames' = [frames EXCEPT ![r] =
                         Bind(Bind(frames[r], "error_global", reduced),
                              "at", "reduced")]
    /\ UNCHANGED <<job, arrived, rec, synth>>
    /\ UNCHANGED books
    /\ UNCHANGED vars

\* return np.sqrt(error_global) / return error_max
Return(r) ==
    /\ frames[r].at = "reduced"
    /\ LET f == frames[r]
           value == IF job.name = "error_L2" THEN FSqrt(f.error_global)
                    ELSE FInt(f.error_global)
       IN  frames' = [frames EXCEPT ![r] =
                         Bind(Bind(f, "returned", value), "at", "returned")]
    /\ UNCHANGED <<job, arrived, rec, synth>>
    /\ UNCHANGED books
    /\ UNCHANGED vars

NextRanks ==
    \E r \in Ranks :
        \/ Interpolate(r)
        \/ Integrate(r)
        \/ EnterAllReduce(r)
        \/ LeaveAllReduce(r)
        \/ Return(r)

SpecRanks == InitRanks /\ [][NextRanks]_<<vars, aux>>

\* --------------------------------------- rates of a synthetic sequence

RECURSIVE Pow2(_)
Pow2(n) == IF n = 0 THEN 1 ELSE 2 * Pow2(n - 1)

\* C * h^r for a positive constant C, a mesh size h and an integer r.
PowerLaw(C, h, r) == FPow(1, C.e + r * h.e)

\* The arrays of cell 5 after its loop, had the errors been
\* E_i = C * h_i^r on meshes halved from one resolution to the next.
InitSynth ==
    /\ \E m \in 0..(MaxLen + 1), first \in 1..2 :
          /\ Ns = [j \in 1..m |-> Pow2(first + j)]
          /\ i = m
    /\ \E c \in (-MaxExpC)..MaxExpC, r \in (-MaxRate)..MaxRate :
          synth = [C |-> FPow(1, c), r |-> r]
    /\ hs = [j \in 1..Len(Ns) |-> FRecip(Ns[j])]
    /\ Es = [j \in 1..Len(Ns) |-> PowerLaw(synth.C, hs[j], synth.r)]
    /\ pc = "loop"
    /\ study = 1
    /\ dIdx = 1
    /\ rates = <<>>
    /\ uh = None
    /\ u_ex = U_ufl
    /\ amps = <<>>
    /\ calls = <<>>
    /\ lastEval = NoEval
    /\ out = <<>>
    /\ err = "none"
    /\ job = NoJob
    /\ frames = NoFrames
    /\ arrived = {}
    /\ rec = NoReplay
    /\ BooksIdle

\* Cell 6 is run on the synthetic arrays.
NextSynth == ComputeRates

SpecSynth == InitSynth /\ [][NextSynth]_<<vars, aux>>

\* ---------------------------------------------- the recorded run of cell 7

\* What solve_poisson and the evaluators compute in floating point is not
\* in the notebook's code; the run of cell 7 the notebook records is.  A
\* loop over a stretch Ns[first..last] of the recorded resolutions has the
\* recorded error at each of them and, a rate being made of two adjacent
\* samples alone, the recorded rates between them.

\* Ns = [4, 8, 16, 32, 64]
RecordedNs == <<4, 8, 16, 32, 64>>

\* One printed rate is this many units: "Rates [1.61228695 ...]" is kept
\* as 161228695.
RateUnit == 100000000

\* The errors printed for the degrees 1 to 4, "Error: 2.43e-01" kept as
\* <<243, -3>> (243 * 10^-3).
RecordedEs ==
    <<<<<<243, -3>>, <<796, -4>>, <<215, -4>>, <<547, -5>>, <<137, -5>>>>,
      <<<<352, -4>>, <<439, -5>>, <<550, -6>>, <<688, -7>>, <<860, -8>>>>,
      <<<<554, -5>>, <<335, -6>>, <<199, -7>>, <<121, -8>>, <<749, -10>>>>,
      <<<<720, -6>>, <<242, -7>>, <<775, -9>>, <<244, -10>>, <<764, -12>>>>>>

\* The rates printed for the degrees 1 to 4.
RecordedRates ==
    <<<<161228695, 189147568, 197191247, 199290382>>,
      <<300109101, 299828073, 299822291, 299930786>>,
      <<404795047, 407357659, 403728992, 401645270>>,
      <<489690800, 496084158, 498926012, 499766464>>>>

\* Mutant of ReplayedRates: the rates between the finest recorded meshes
\* are taken, whichever stretch was run.
ReplayedFinestRates(degree, first, last) ==
    SubSeq(RecordedRates[degree], first + Len(RecordedNs) - last,
           Len(RecordedNs) - 1)

\* rates = np.log(Es[1:] / Es[:-1]) / np.log(hs[1:] / hs[:-1]) of the
\* recorded samples first..last.
ReplayedRates(degree, first, last) ==
    SubSeq(RecordedRates[degree], first, last - 1)

InitReplay ==
    /\ \E degree \in DOMAIN RecordedRates :
       \E first \in DOMAIN RecordedNs :
       \E last \in first..Len(RecordedNs) :
          /\ rec = [at |-> "loop", degree |-> degree, first |-> first,
                    last |-> last, seen |-> 0, Es |-> <<>>, rates |-> <<>>]
          /\ Ns = SubSeq(RecordedNs, first, last)
    /\ Fresh
    /\ job = NoJob
    /\ frames = NoFrames
    /\ arrived = {}
    /\ synth = NoSynth
    /\ BooksIdle

\* A pass of the loop of cell 7: the error of the next resolution.
ReplayIterate ==
    /\ rec.at = "loop"
    /\ rec.seen < Len(Ns)
    /\ rec' = [rec EXCEPT
                  !.Es = Append(@, RecordedEs[rec.degree][rec.first + rec.seen]),
                  !.seen = @ + 1]
    /\ UNCHANGED <<job, frames, arrived, synth>>
    /\ UNCHANGED books
    /\ UNCHANGED vars

\* The rates after the loop.
ReplayRates ==
    /\ rec.at = "loop"
    /\ rec.seen = Len(Ns)
    /\ rec' = [rec EXCEPT
                  !.rates = ReplayedRates(rec.degree, rec.first, rec.last),
                  !.at = "rated"]
    /\ UNCHANGED <<job, frames, arrived, synth>>
    /\ UNCHANGED books
    /\ UNCHANGED vars

NextReplay ==
    \/ ReplayIterate
    \/ ReplayRates

SpecReplay == InitReplay /\ [][NextReplay]_<<vars, aux>>

\* ------------------------------ chapter1/fundamentals_code.ipynb, cells 11-12

\* What the error cells leave alone.
exceptFund == <<vars, job, frames, arrived, rec, synth, heat, newton, em, sub>>

\* uD, and uex at the degrees of freedom of V: the exact solution.
\* uh = uD + dev.  The integrand of L2_error at point j is
\* (uh - uex)^2 there.
FundSquare(dev, j) == dev[j] * dev[j]

\* assemble_scalar(L2_error) on process r.
FundAssemble(dev, r) ==
    SumOver([j \in 1..FundDofs |-> FundSquare(dev, j)],
            OwnedDofs(r, FundDofs))

\* numpy.max(numpy.abs(uD.x.array-uh.x.array)) on process r: the arrays
\* hold the degrees of freedom of the process only.
FundMax(dev, r) == MaxOf({Abs(dev[j]) : j \in LocalDofs(r, FundDofs)})

\* The names of cells 11 and 12 on one process.
FundFrame ==
    [at |-> "cell11", error_local |-> 0, error_L2 |-> FNaN,
     error_max |-> FNaN]

InitFund ==
    /\ Ns = <<>>
    /\ Fresh
    /\ job = NoJob
    /\ frames = NoFrames
    /\ arrived = {}
    /\ rec = NoReplay
    /\ synth = NoSynth
    /\ \E dev \in [1..FundDofs -> 0..MaxCoef] :
          fund = [at |-> "run", dev |-> dev,
                  on |-> [r \in Ranks |-> FundFrame],
                  arrived |-> {}, out |-> <<>>]
    /\ heat = NotRun
    /\ newton = NotRun
    /\ em = NotRun
    /\ sub = NotRun

\* error_local = assemble_scalar(L2_error), and allreduce is entered.
FundAssembleLocal(r) ==
    /\ fund.at = "run"
    /\ fund.on[r].at = "cell11"
    /\ fund' = [fund EXCEPT
                   !.on[r].error_local = FundAssemble(fund.dev, r),
                   !.on[r].at = "allreduce",
                   !.arrived = @ \cup {r}]
    /\ UNCHANGED exceptFund

\* error_L2 = numpy.sqrt(mesh.comm.allreduce(error_local, op=MPI.SUM))
FundReduce(r) ==
    /\ fund.at = "run"
    /\ fund.on[r].at = "allreduce"
    /\ fund.arrived = Ranks
    /\ fund' = [fund EXCEPT
                   !.on[r].error_L2 =
                       FSqrt(AllReduceSum([q \in Ranks |->
                                              fund.on[q].error_local])),
                   !.on[r].at = "cell12"]
    /\ UNCHANGED exceptFund

\* Cell 12: error_max, and the two prints on the process of rank 0.
FundMaxAndPrint(r) ==
    /\ fund.at = "run"
    /\ fund.on[r].at = "cell12"
    /\ LET error_max == FInt(FundMax(fund.dev, r))
       IN  fund' = [fund EXCEPT
                      !.on[r].error_max = error_max,
                      !.on[r].at = "done",
                      !.out = IF r = 1
                              THEN <<[name |-> "Error_L2",
                                      value |-> fund.on[r].error_L2],
                                     [name |-> "Error_max",
                                      value |-> error_max]>>
                              ELSE @]
    /\ UNCHANGED exceptFund

NextFund ==
    \E r \in Ranks :
        \/ FundAssembleLocal(r)
        \/ FundReduce(r)
        \/ FundMaxAndPrint(r)

SpecFund == InitFund /\ [][NextFund]_<<vars, aux>>

\* ------------------------------------------- the diffusion notebook
\*
\* The time loop of the heat equation, statement by statement.  A vector is
\* held as its owned and its ghost part; each part carries the number of
\* the time step whose solution it holds (0: the initial condition).  The
\* right-hand side b carries the set of the steps it was assembled from
\* and the operations applied to it since it was last zeroed.  Times are
\* exact fractions.

\* The largest num_steps of a run.
MaxSteps == 4

\* T = 2.0
FinalTime == 2

\* if i % 15 == 0: plot_function(t, uh)
PlotEvery == 15

exceptHeat == <<vars, job, frames, arrived, rec, synth, fund, newton, em, sub>>

\* a + b for two times.
TAdd(a, b) == Fraction(a.n * b.d + b.n * a.d, a.d * b.d)

\* a < b for two times.
TLess(a, b) == a.n * b.d < b.n * a.d

\* The owned and the ghost degrees of freedom of a function on a process.
Dist(own, ghost) == [own |-> own, ghost |-> ghost]

\* A vector that holds no solution: not yet created, or computed from a
\* right-hand side that is not the one of a single step.
NoStep == -1

\* fem.create_vector(linear_form), and b after loc_b.set(0).
ZeroVector == [src |-> {}, ops |-> <<>>]

\* The operations that make an assembled b the right-hand side of the
\* linear system with the boundary condition applied.
RhsReady == <<"assemble", "lifting", "ghost", "set_bc">>

\* solver.solve(b, uh.vector): the solution of the step after the one b was
\* assembled from, when b is the complete right-hand side of one step and
\* the solver holds an assembled operator.
SolveStep(op, b) ==
    IF op > 0 /\ b.ops = RhsReady /\ Cardinality(b.src) = 1 /\ b.src # {NoStep}
    THEN (CHOOSE k \in b.src : TRUE) + 1
    ELSE NoStep

\* The state after cell 1: the temporal parameters and the mesh.
HeatStart(num_steps) ==
    [at |-> "cell2", num_steps |-> num_steps,
     t |-> RFin(0, 1), dt |-> Fraction(FinalTime, num_steps),
     i |-> 0, u_n |-> Dist(NoStep, NoStep), uh |-> Dist(NoStep, NoStep),
     b |-> ZeroVector, A |-> 0, assembled |-> 0, op |-> 0,
     file |-> "none", snaps |-> <<>>, plots |-> 0, trace |-> <<>>]

InitHeat ==
    /\ Ns = <<>>
    /\ Fresh
    /\ job = NoJob
    /\ frames = NoFrames
    /\ arrived = {}
    /\ rec = NoReplay
    /\ synth = NoSynth
    /\ fund = NotRun
    /\ \E num_steps \in 1..MaxSteps : heat = HeatStart(num_steps)
    /\ newton = NotRun
    /\ em = NotRun
    /\ sub = NotRun

\* Cell 2: u_n.interpolate(initial_condition).
HeatInitialCondition ==
    /\ heat.at = "cell2"
    /\ heat' = [heat EXCEPT !.u_n = Dist(0, 0), !.at = "cell3"]
    /\ UNCHANGED exceptHeat

\* xdmf.write_function(uh, t): one more snapshot in an open file.
WriteFunction(h) ==
    IF h.file = "open"
    THEN Append(h.snaps, [t |-> h.t, u |-> h.uh])
    ELSE h.snaps

\* Cell 3: the file is opened, uh interpolated and written at t = 0.
HeatOpenFile ==
    /\ heat.at = "cell3"
    /\ LET h == [heat EXCEPT !.file = "open", !.uh = Dist(0, 0)]
       IN  heat' = [h EXCEPT !.snaps = WriteFunction(h), !.at = "cell6"]
    /\ UNCHANGED exceptHeat

\* fem.assemble_matrix(bilinear_form, bcs=[bc]); A.assemble(): the matrix
\* of one more assembly.
AssembleMatrix(h) == [h EXCEPT !.assembled = @ + 1, !.A = h.assembled + 1]

\* Cell 6: A is assembled and b created.
HeatAssembleMatrix ==
    /\ heat.at = "cell6"
    /\ heat' = [AssembleMatrix(heat) EXCEPT !.b = ZeroVector, !.at = "cell7"]
    /\ UNCHANGED exceptHeat

\* Cell 7: solver.setOperators(A).
HeatCreateSolver ==
    /\ heat.at = "cell7"
    /\ heat' = [heat EXCEPT !.op = heat.A, !.at = "cell8"]
    /\ UNCHANGED exceptHeat

\* Cell 8: plot_function(0, uh).
HeatPlotInitial ==
    /\ heat.at = "cell8"
    /\ heat' = [heat EXCEPT !.plots = @ + 1, !.at = "for"]
    /\ UNCHANGED exceptHeat

\* for i in range(num_steps): t += dt
HeatAdvance ==
    /\ heat.at = "for"
    /\ heat.i < heat.num_steps
    /\ heat' = [heat EXCEPT !.t = TAdd(heat.t, heat.dt), !.trace = <<>>,
                            !.at = "zero"]
    /\ UNCHANGED exceptHeat

\* with b.localForm() as loc_b: loc_b.set(0)
HeatZero ==
    /\ heat.at = "zero"
    /\ heat' = [heat EXCEPT !.b = ZeroVector,
                            !.trace = Append(@, "zero"), !.at = "assemble"]
    /\ UNCHANGED exceptHeat

\* Mutant of AssembleVector: the matrix is assembled again with the vector.
AssembleVectorAndMatrix(h) ==
    [AssembleMatrix(h) EXCEPT
        !.b = [src |-> h.b.src \cup {h.u_n.own, h.u_n.ghost},
               ops |-> Append(h.b.ops, "assemble")]]

\* fem.assemble_vector(b, linear_form): the contributions of u_n, owned and
\* ghost, are added into b.
AssembleVector(h) ==
    [h EXCEPT !.b = [src |-> h.b.src \cup {h.u_n.own, h.u_n.ghost},
                     ops |-> Append(h.b.ops, "assemble")]]

HeatAssembleVector ==
    /\ heat.at = "assemble"
    /\ heat' = [AssembleVector(heat) EXCEPT
                   !.trace = Append(@, "assemble"), !.at = "lifting"]
    /\ UNCHANGED exceptHeat

\* fem.apply_lifting(b, [bilinear_form], [[bc]])
HeatLifting ==
    /\ heat.at = "lifting"
    /\ heat' = [heat EXCEPT !.b.ops = Append(@, "lifting"),
                            !.trace = Append(@, "lifting"), !.at = "ghost"]
    /\ UNCHANGED exceptHeat

\* b.ghostUpdate(addv=ADD_VALUES, mode=REVERSE)
HeatGhostUpdate ==
    /\ heat.at = "ghost"
    /\ heat' = [heat EXCEPT !.b.ops = Append(@, "ghost"),
                            !.trace = Append(@, "ghost"), !.at = "set_bc"]
    /\ UNCHANGED exceptHeat

\* fem.set_bc(b, [bc])
HeatSetBC ==
    /\ heat.at = "set_bc"
    /\ heat' = [heat EXCEPT !.b.ops = Append(@, "set_bc"),
                            !.trace = Append(@, "set_bc"), !.at = "solve"]
    /\ UNCHANGED exceptHeat

\* solver.solve(b, uh.vector): the owned part of uh is the new solution.
HeatSolve ==
    /\ heat.at = "solve"
    /\ heat' = [heat EXCEPT !.uh.own = SolveStep(heat.op, heat.b),
                            !.trace = Append(@, "solve"), !.at = "scatter"]
    /\ UNCHANGED exceptHeat

\* Mutant of ScatterForward: the ghost part keeps its old values.
ScatterNothing(u) == u

\* uh.x.scatter_forward(): the ghost part takes the owners' values.
ScatterForward(u) == Dist(u.own, u.own)

HeatScatter ==
    /\ heat.at = "scatter"
    /\ heat' = [heat EXCEPT !.uh = ScatterForward(heat.uh),
                            !.trace = Append(@, "scatter"), !.at = "copy"]
    /\ UNCHANGED exceptHeat

\* u_n.x.array[:] = uh.x.array
HeatCopy ==
    /\ heat.at = "copy"
    /\ heat' = [heat EXCEPT !.u_n = heat.uh,
                            !.trace = Append(@, "copy"), !.at = "write"]
    /\ UNCHANGED exceptHeat

\* xdmf.write_function(uh, t)
HeatWrite ==
    /\ heat.at = "write"
    /\ heat' = [heat EXCEPT !.snaps = WriteFunction(heat), !.at = "plot"]
    /\ UNCHANGED exceptHeat

\* Mutant of EndOfStep: every other value of i is skipped.
EndOfStepSkips(h) == [h EXCEPT !.i = @ + 2, !.at = "for"]

\* The end of the loop body: the next i.
EndOfStep(h) == [h EXCEPT !.i = @ + 1, !.at = "for"]

\* if i % 15 == 0: plot_function(t, uh), and the end of the iteration.
HeatPlot ==
    /\ heat.at = "plot"
    /\ heat' = EndOfStep([heat EXCEPT
                   !.plots = IF heat.i % PlotEvery = 0 THEN @ + 1 ELSE @])
    /\ UNCHANGED exceptHeat

\* xdmf.close() after the loop.
HeatClose ==
    /\ heat.at = "for"
    /\ heat.i >= heat.num_steps
    /\ heat' = [heat EXCEPT !.file = "closed", !.at = "end"]
    /\ UNCHANGED exceptHeat

NextHeat ==
    \/ HeatInitialCondition
    \/ HeatOpenFile
    \/ HeatAssembleMatrix
    \/ HeatCreateSolver
    \/ HeatPlotInitial
    \/ HeatAdvance
    \/ HeatZero
    \/ HeatAssembleVector
    \/ HeatLifting
    \/ HeatGhostUpdate
    \/ HeatSetBC
    \/ HeatSolve
    \/ HeatScatter
    \/ HeatCopy
    \/ HeatWrite
    \/ HeatPlot
    \/ HeatClose

SpecHeat == InitHeat /\ [][NextHeat]_<<vars, aux>>

\* The cells of a notebook run one after another and each statement of a
\* cell runs once the one before it has returned: a run that can take a
\* step takes it.
SpecHeatLive == SpecHeat /\ WF_<<vars, aux>>(NextHeat)

\* ------------------------------------ the nonlinear Poisson notebook
\*
\* Cells 9 and 10: the Newton solve, the assertion, and the errors.  What
\* solver.solve returns is the library's choice: any number of iterations
\* up to MaxNewton, converged or not.  uh = u_D + dev at the degrees of
\* freedom when the solver returns.

\* The largest number of Newton iterations a solve reports.
MaxNewton == 3

exceptNewton == <<vars, job, frames, arrived, rec, synth, fund, heat, em, sub>>

\* The state before cell 9.
NewtonStart(dev) ==
    [at |-> "solve", dev |-> dev, n |-> 0, converged |-> FALSE,
     error_L2 |-> FNaN, error_max |-> FNaN, out |-> <<>>, err |-> ""]

InitNewton ==
    /\ Ns = <<>>
    /\ Fresh
    /\ job = NoJob
    /\ frames = NoFrames
    /\ arrived = {}
    /\ rec = NoReplay
    /\ synth = NoSynth
    /\ fund = NotRun
    /\ heat = NotRun
    /\ \E dev \in [1..FundDofs -> 0..MaxCoef] : newton = NewtonStart(dev)
    /\ em = NotRun
    /\ sub = NotRun

\* n, converged = solver.solve(uh); uh.x.scatter_forward()
NewtonSolve ==
    /\ newton.at = "solve"
    /\ \E n \in 1..MaxNewton, converged \in BOOLEAN :
           newton' = [newton EXCEPT !.n = n, !.converged = converged,
                                    !.at = "assert"]
    /\ UNCHANGED exceptNewton

\* Mutant of Asserted: the assertion lets every run pass.
AssertedAlways(h) == [h EXCEPT !.at = "print"]

\* assert(converged): the run goes on, or stops with an AssertionError.
Asserted(h) ==
    IF h.converged
    THEN [h EXCEPT !.at = "print"]
    ELSE [h EXCEPT !.err = "AssertionError", !.at = "stopped"]

NewtonAssert ==
    /\ newton.at = "assert"
    /\ newton' = Asserted(newton)
    /\ UNCHANGED exceptNewton

\* print(f"Number of interations: {n:d}")
NewtonPrintIterations ==
    /\ newton.at = "print"
    /\ newton' = [newton EXCEPT
                     !.out = Append(@, [name |-> "Number of interations",
                                        value |-> FInt(newton.n)]),
                     !.at = "cell10"]
    /\ UNCHANGED exceptNewton

\* Cell 10, first half: the L2 error, reduced over the processes and
\* printed on rank 0.
NewtonErrorL2 ==
    /\ newton.at = "cell10"
    /\ LET norm == FSqrt(AllReduceSum([r \in Ranks |->
                                              FundAssemble(newton.dev, r)]))
       IN  newton' = [newton EXCEPT
                         !.error_L2 = norm,
                         !.out = Append(@, [name |-> "L2-error",
                                            value |-> norm]),
                         !.at = "max"]
    /\ UNCHANGED exceptNewton

\* Cell 10, second half: the maximum error, reduced over the processes and
\* printed on rank 0.
NewtonErrorMax ==
    /\ newton.at = "max"
    /\ LET error_max == FInt(AllReduceMax([r \in Ranks |->
                                              FundMax(newton.dev, r)]))
       IN  newton' = [newton EXCEPT
                         !.error_max = error_max,
                         !.out = Append(@, [name |-> "Error_max",
                                            value |-> error_max]),
                         !.at = "end"]
    /\ UNCHANGED exceptNewton

NextNewton ==
    \/ NewtonSolve
    \/ NewtonAssert
    \/ NewtonPrintIterations
    \/ NewtonErrorL2
    \/ NewtonErrorMax

SpecNewton == InitNewton /\ [][NextNewton]_<<vars, aux>>

\* ------------------------------------ the electromagnetics notebook
\*
\* Three parts of the notebook, each a specification of its own on the
\* variable em: the loop that tags the fragments of the geometry on rank 0
\* (SpecTag), the loop over the material tags that fills mu and J
\* (SpecMu), and the broadcast of the cell type in the mesh-loading cell
\* (SpecBcast).

\* The largest number of windings N of a run.
MaxWires == 2

\* c_1 = 0.8 and c_2 = 1.4 in tenths.
InnerRadius == 8
OuterRadius == 14

exceptEm == <<vars, job, frames, arrived, rec, synth, fund, heat, newton, sub>>

\* A surface of the fragmented geometry: its number, whether its mass is
\* that of the iron ring, and the distance of its centre of mass from the
\* origin.
Surface(id, ring, com) == [id |-> id, ring |-> ring, com |-> com]

\* whole_domain[0]: the iron ring, the vacuum inside and outside of it, the
\* N wires inside and the N wires outside.
Fragments(N) ==
    {Surface(1, TRUE, 0), Surface(2, FALSE, 0), Surface(3, FALSE, 0)}
        \cup {Surface(3 + k, FALSE, InnerRadius) : k \in 1..N}
        \cup {Surface(3 + N + k, FALSE, OuterRadius) : k \in 1..N}

\* The branch of the if/elif chain that a fragment takes.
Classify(domain) ==
    IF domain.ring THEN "iron"
    ELSE IF domain.com = 0 THEN "background"
    ELSE IF domain.com = InnerRadius THEN "inner"
    ELSE IF domain.com = OuterRadius THEN "outer"
    ELSE "none"

\* gmsh.model.addPhysicalGroup(2, entities, tag)
AddPhysicalGroup(groups, entities, tag) ==
    Append(groups, [tag |-> tag, entities |-> entities])

\* The state at line 536, before the loop.
TagStart(N) ==
    [at |-> "loop", N |-> N, todo |-> Fragments(N),
     inner_tag |-> 2, outer_tag |-> 2 + N,
     background_surfaces |-> {}, other_surfaces |-> {}, groups |-> <<>>]

InitTag ==
    /\ Ns = <<>>
    /\ Fresh
    /\ job = NoJob
    /\ frames = NoFrames
    /\ arrived = {}
    /\ rec = NoReplay
    /\ synth = NoSynth
    /\ fund = NotRun
    /\ heat = NotRun
    /\ newton = NotRun
    /\ \E N \in 1..MaxWires : em = TagStart(N)
    /\ sub = NotRun

\* Mutant of TagInner: the counter of the inner wires stands still.
TagInnerSameTag(h, domain) ==
    [h EXCEPT !.groups = AddPhysicalGroup(@, {domain.id}, h.inner_tag),
              !.other_surfaces = @ \cup {domain.id}]

\* Lines 550-552: an inner wire gets the next inner tag.
TagInner(h, domain) ==
    [h EXCEPT !.groups = AddPhysicalGroup(@, {domain.id}, h.inner_tag),
              !.inner_tag = @ + 1,
              !.other_surfaces = @ \cup {domain.id}]

\* Lines 555-557: an outer wire gets the next outer tag.
TagOuter(h, domain) ==
    [h EXCEPT !.groups = AddPhysicalGroup(@, {domain.id}, h.outer_tag),
              !.outer_tag = @ + 1,
              !.other_surfaces = @ \cup {domain.id}]

\* One iteration of "for domain in whole_domain[0]"; the order of the
\* fragments is gmsh's.
TagFragment ==
    /\ em.at = "loop"
    /\ \E domain \in em.todo :
           LET h == [em EXCEPT !.todo = @ \ {domain}]
               branch == Classify(domain)
           IN  em' = IF branch = "iron"
                     THEN [h EXCEPT
                              !.groups = AddPhysicalGroup(@, {domain.id}, 1),
                              !.other_surfaces = @ \cup {domain.id}]
                     ELSE IF branch = "background"
                     THEN [h EXCEPT
                              !.background_surfaces = @ \cup {domain.id}]
                     ELSE IF branch = "inner" THEN TagInner(h, domain)
                     ELSE IF branch = "outer" THEN TagOuter(h, domain)
                     ELSE h
    /\ UNCHANGED exceptEm

\* Line 559: the marker of the vacuum, after the loop.
TagVacuum ==
    /\ em.at = "loop"
    /\ em.todo = {}
    /\ em' = [em EXCEPT
                 !.groups = AddPhysicalGroup(@, em.background_surfaces, 0),
                 !.at = "tagged"]
    /\ UNCHANGED exceptEm

NextTag ==
    \/ TagFragment
    \/ TagVacuum

SpecTag == InitTag /\ [][NextTag]_<<vars, aux>>

\* The material loop.  ct holds a tag for every cell of the mesh on the
\* process; values of mu are in units of 1e-9.

\* The largest number of cells on a process.
MaxCells == 3

\* mu_ = 4 * np.pi*1e-7, 1e-5 and 1.26e-6, in units of 1e-9.
MuVacuum == 1257
MuIron == 10000
MuCopper == 1260

\* np.unique(ct.values)
Unique(values) == Range(values)

\* Mutant of CellsWith: only the first cell of the tag is found.
CellsWithFirst(ct, tag) ==
    LET found == {c \in DOMAIN ct : ct[c] = tag}
    IN  IF found = {} THEN {} ELSE {CHOOSE c \in found : \A o \in found : c <= o}

\* ct.indices[ct.values==tag]
CellsWith(ct, tag) == {c \in DOMAIN ct : ct[c] = tag}

\* The value mu_ of the if/elif/else on the tag.
MuOf(tag) ==
    IF tag = 0 THEN MuVacuum
    ELSE IF tag = 1 THEN MuIron
    ELSE MuCopper

\* The current of a tag: 1 in the inner wires, -1 in the outer ones; other
\* cells keep their value.
JOf(tag, N, old) ==
    IF tag \in 2..(1 + N) THEN 1
    ELSE IF tag \in (2 + N)..(2 * N + 1) THEN -1
    ELSE old

\* The state at line 744: mu = Function(Q) holds zeros, J is set to 0.
MuStart(N, ct) ==
    [at |-> "tags", N |-> N, ct |-> ct,
     material_tags |-> Unique(ct), visited |-> {},
     mu |-> [c \in DOMAIN ct |-> 0], J |-> [c \in DOMAIN ct |-> 0],
     a |-> <<>>]

InitMu ==
    /\ Ns = <<>>
    /\ Fresh
    /\ job = NoJob
    /\ frames = NoFrames
    /\ arrived = {}
    /\ rec = NoReplay
    /\ synth = NoSynth
    /\ fund = NotRun
    /\ heat = NotRun
    /\ newton = NotRun
    /\ \E N \in 1..MaxWires, n \in 1..MaxCells :
           \E ct \in [1..n -> 0..(2 * N + 1)] : em = MuStart(N, ct)
    /\ sub = NotRun

\* One iteration of "for tag in material_tags", in ascending order.
MuNextTag ==
    /\ em.at = "tags"
    /\ em.visited # em.material_tags
    /\ LET tag == MaxOf({t \in em.material_tags \ em.visited :
                            \A o \in em.material_tags \ em.visited : t <= o})
           cells == CellsWith(em.ct, tag)
       IN  em' = [em EXCEPT
                     !.visited = @ \cup {tag},
                     !.mu = [c \in DOMAIN em.mu |->
                                IF c \in cells THEN MuOf(tag) ELSE em.mu[c]],
                     !.J = [c \in DOMAIN em.J |->
                               IF c \in cells THEN JOf(tag, em.N, em.J[c])
                               ELSE em.J[c]]]
    /\ UNCHANGED exceptEm

\* Lines 777-785: the weak form; its coefficient 1 / mu is taken cell by
\* cell from the values mu holds, a division by zero where mu is 0.
MuDefineForm ==
    /\ em.at = "tags"
    /\ em.visited = em.material_tags
    /\ em' = [em EXCEPT
                 !.a = [c \in DOMAIN em.mu |->
                           IF em.mu[c] = 0 THEN RInf(1)
                           ELSE Fraction(1, em.mu[c])],
                 !.at = "form"]
    /\ UNCHANGED exceptEm

NextMu ==
    \/ MuNextTag
    \/ MuDefineForm

SpecMu == InitMu /\ [][NextMu]_<<vars, aux>>

\* The mesh-loading cell on every process.  The process of rank 0 is
\* process 1 here.  None is 0 for cell_id and num_nodes.

\* The gmsh element types a model can hold: point, line, triangle and
\* quadrangle, with their dimension and number of nodes.
ElementTypes ==
    {[id |-> 15, dim |-> 0, num_nodes |-> 1],
     [id |-> 1, dim |-> 1, num_nodes |-> 2],
     [id |-> 2, dim |-> 2, num_nodes |-> 3],
     [id |-> 3, dim |-> 2, num_nodes |-> 4]}

\* cell_information[perm_sort[-1]]: an element type of the highest
\* dimension (argsort leaves the order of equal dimensions open).
HighestDimension(topologies) ==
    {e \in topologies : \A o \in topologies : o.dim <= e.dim}

\* A process before the cell.
BcastFrame == [at |-> "branch", cell_id |-> 0, num_nodes |-> 0, bcasts |-> 0]

InitBcast ==
    /\ Ns = <<>>
    /\ Fresh
    /\ job = NoJob
    /\ frames = NoFrames
    /\ arrived = {}
    /\ rec = NoReplay
    /\ synth = NoSynth
    /\ fund = NotRun
    /\ heat = NotRun
    /\ newton = NotRun
    /\ \E topologies \in (SUBSET ElementTypes) \ {{}} :
           em = [at |-> "load", topologies |-> topologies,
                 on |-> [r \in Ranks |-> BcastFrame], wire |-> <<>>]
    /\ sub = NotRun

\* if rank == 0: lines 597-617 on rank 0; else: nothing before the bcast.
BcastBranch(r) ==
    /\ em.at = "load"
    /\ em.on[r].at = "branch"
    /\ IF r = 1
       THEN \E e \in HighestDimension(em.topologies) :
                em' = [em EXCEPT !.on[r].cell_id = e.id,
                                 !.on[r].num_nodes = e.num_nodes,
                                 !.on[r].at = "bcast"]
       ELSE em' = [em EXCEPT !.on[r].at = "bcast"]
    /\ UNCHANGED exceptEm

\* Mutant of EnterBcast: the root's message is not sent.
EnterWithoutSending(h, r) ==
    [h EXCEPT !.on[r].bcasts = @ + 1, !.on[r].at = "wait"]

\* MPI.COMM_WORLD.bcast(..., root=0) is called: the root's object is sent,
\* the object of another process is ignored.
EnterBcast(h, r) ==
    [h EXCEPT !.on[r].bcasts = @ + 1,
              !.on[r].at = "wait",
              !.wire = IF r = 1
                       THEN <<[cell_id |-> h.on[r].cell_id,
                               num_nodes |-> h.on[r].num_nodes]>>
                       ELSE @]

BcastEnter(r) ==
    /\ em.at = "load"
    /\ em.on[r].at = "bcast"
    /\ em' = EnterBcast(em, r)
    /\ UNCHANGED exceptEm

\* The bcast returns the root's object, once the root has sent it.
BcastLeave(r) ==
    /\ em.at = "load"
    /\ em.on[r].at = "wait"
    /\ em.wire # <<>>
    /\ em' = [em EXCEPT !.on[r].cell_id = em.wire[1].cell_id,
                        !.on[r].num_nodes = em.wire[1].num_nodes,
                        !.on[r].at = "arrays"]
    /\ UNCHANGED exceptEm

\* cells, cell_values (and x on the other processes); gmsh.finalize().
BcastFinalize(r) ==
    /\ em.at = "load"
    /\ em.on[r].at = "arrays"
    /\ em' = [em EXCEPT !.on[r].at = "done"]
    /\ UNCHANGED exceptEm

BcastRank(r) ==
    \/ BcastBranch(r)
    \/ BcastEnter(r)
    \/ BcastLeave(r)
    \/ BcastFinalize(r)

NextBcast == \E r \in Ranks : BcastRank(r)

SpecBcast == InitBcast /\ [][NextBcast]_<<vars, aux>>

\* Every process runs: one that can take a step takes it.
SpecBcastLive ==
    SpecBcast /\ \A r \in Ranks : WF_<<vars, aux>>(BcastRank(r))

\* --------------------------------------------- the subdomains notebook
\*
\* Two parts of the notebook, each a specification of its own on the
\* variable sub: the conversion of the gmsh mesh on rank 0 and the parallel
\* read of the two XDMF files (SpecFiles), and the two definitions of kappa
\* on the unit square (SpecKappa).

exceptSub == <<vars, job, frames, arrived, rec, synth, fund, heat, newton, em>>

\* A file holds nothing ("absent"), a part of its data ("partial") or all
\* of it ("complete").

\* A process before the gmsh cell; seen holds what the files held whenever
\* the process started to read mesh.xdmf or mt.xdmf.
FilesFrame == [at |-> "gmsh", seen |-> <<>>]

InitFiles ==
    /\ Ns = <<>>
    /\ Fresh
    /\ job = NoJob
    /\ frames = NoFrames
    /\ arrived = {}
    /\ rec = NoReplay
    /\ synth = NoSynth
    /\ fund = NotRun
    /\ heat = NotRun
    /\ newton = NotRun
    /\ em = NotRun
    /\ sub = [at |-> "files",
              files |-> [msh |-> "absent", mesh |-> "absent",
                         mt |-> "absent"],
              on |-> [r \in Ranks |-> FilesFrame], entered |-> {}]

\* The gmsh cell: rank 0 builds the geometry and writes mesh.msh; every
\* process calls gmsh.finalize().
FilesGmsh(r) ==
    /\ sub.at = "files"
    /\ sub.on[r].at = "gmsh"
    /\ sub' = [sub EXCEPT
                  !.files.msh = IF r = 1 THEN "complete" ELSE @,
                  !.on[r].at = "convert"]
    /\ UNCHANGED exceptSub

\* if proc == 0: msh = meshio.read("mesh.msh") on rank 0; the other
\* processes go on to the next cell.
FilesConvert(r) ==
    /\ sub.at = "files"
    /\ sub.on[r].at = "convert"
    /\ sub' = [sub EXCEPT
                  !.on[r].at = IF r = 1 THEN "create_mesh" ELSE "open_mesh"]
    /\ UNCHANGED exceptSub

\* triangle_mesh and line_mesh = create_mesh(msh, ...) on rank 0.
FilesCreateMeshes(r) ==
    /\ sub.at = "files"
    /\ sub.on[r].at = "create_mesh"
    /\ sub' = [sub EXCEPT !.on[r].at = "write_mesh"]
    /\ UNCHANGED exceptSub

\* meshio.write("mesh.xdmf", triangle_mesh) starts, and ends.
FilesWriteMesh(r) ==
    /\ sub.at = "files"
    /\ \/ /\ sub.on[r].at = "write_mesh"
          /\ sub' = [sub EXCEPT !.files.mesh = "partial",
                                !.on[r].at = "writing_mesh"]
       \/ /\ sub.on[r].at = "writing_mesh"
          /\ sub' = [sub EXCEPT !.files.mesh = "complete",
                                !.on[r].at = "write_mt"]
    /\ UNCHANGED exceptSub

\* meshio.write("mt.xdmf", line_mesh) starts, and ends.
FilesWriteMt(r) ==
    /\ sub.at = "files"
    /\ \/ /\ sub.on[r].at = "write_mt"
          /\ sub' = [sub EXCEPT !.files.mt = "partial",
                                !.on[r].at = "writing_mt"]
       \/ /\ sub.on[r].at = "writing_mt"
          /\ sub' = [sub EXCEPT !.files.mt = "complete",
                                !.on[r].at = "open_mesh"]
    /\ UNCHANGED exceptSub

\* Where a process goes that opens a file for reading: on with a complete
\* file; a FileNotFound error with none; an error or the data read so far
\* with a part of one.
AfterOpen(state, next) ==
    IF state = "complete" THEN {next}
    ELSE IF state = "absent" THEN {"failed"}
    ELSE {"failed", next}

\* XDMFFile(MPI.COMM_WORLD, "mesh.xdmf", "r"): the process starts to read.
FilesOpenMesh(r) ==
    /\ sub.at = "files"
    /\ sub.on[r].at = "open_mesh"
    /\ \E next \in AfterOpen(sub.files.mesh, "read_mesh") :
           sub' = [sub EXCEPT !.on[r].seen = Append(@, sub.files),
                              !.on[r].at = next]
    /\ UNCHANGED exceptSub

\* xdmf.read_mesh and xdmf.read_meshtags: the mesh is distributed over the
\* processes, which takes all of them.
FilesReadMesh(r) ==
    /\ sub.at = "files"
    /\ \/ /\ sub.on[r].at = "read_mesh"
          /\ sub' = [sub EXCEPT !.entered = @ \cup {r},
                                !.on[r].at = "distribute"]
       \/ /\ sub.on[r].at = "distribute"
          /\ sub.entered = Ranks
          /\ sub' = [sub EXCEPT !.on[r].at = "open_mt"]
    /\ UNCHANGED exceptSub

\* XDMFFile(MPI.COMM_WORLD, "mt.xdmf", "r") and ft = xdmf.read_meshtags.
FilesOpenMt(r) ==
    /\ sub.at = "files"
    /\ sub.on[r].at = "open_mt"
    /\ \E next \in AfterOpen(sub.files.mt, "done") :
           sub' = [sub EXCEPT !.on[r].seen = Append(@, sub.files),
                              !.on[r].at = next]
    /\ UNCHANGED exceptSub

NextFiles ==
    \E r \in Ranks :
        \/ FilesGmsh(r)
        \/ FilesConvert(r)
        \/ FilesCreateMeshes(r)
        \/ FilesWriteMesh(r)
        \/ FilesWriteMt(r)
        \/ FilesOpenMesh(r)
        \/ FilesReadMesh(r)
        \/ FilesOpenMt(r)

SpecFiles == InitFiles /\ [][NextFiles]_<<vars, aux>>

\* The two definitions of kappa on the unit square.  A mesh has nx by ny
\* squares, each cut into two triangles by a diagonal or into four by both;
\* the height of a point is a fraction num / den of the side of the square.
\* Values of kappa are in tenths.

\* The largest number of squares of a mesh in x and in y direction.
MaxCols == 3
MaxRows == 4

\* kappa = 1 and kappa = 0.1, in tenths.
KappaBottom == 10
KappaTop == 1

\* The height num / den of a point.
Height(num, den) == [num |-> num, den |-> den]

\* Mutant of Omega_0: the points on the interface are left out.
Omega_0Strict(y) == 2 * y.num < y.den

\* def Omega_0(x): return x[1] <= 0.5
Omega_0(y) == 2 * y.num <= y.den

\* def Omega_1(x): return x[1] >= 0.5
Omega_1(y) == 2 * y.num >= y.den

\* The triangles of create_unit_square(comm, nx, ny): for each square of
\* row j the heights of the three vertices of each triangle, in units of
\* 1 / (2 * ny).
Triangles(nx, ny, diagonal) ==
    LET shapes(j) ==
            IF diagonal = "crossed"
            THEN <<<<2 * j, 2 * j, 2 * j + 1>>,
                   <<2 * j, 2 * j + 2, 2 * j + 1>>,
                   <<2 * j + 2, 2 * j, 2 * j + 1>>,
                   <<2 * j + 2, 2 * j + 2, 2 * j + 1>>>>
            ELSE <<<<2 * j, 2 * j, 2 * j + 2>>,
                   <<2 * j, 2 * j + 2, 2 * j + 2>>>>
    IN  {[col |-> col, row |-> j, k |-> k,
          vertices |-> [v \in 1..3 |-> Height(shapes(j)[k][v], 2 * ny)]] :
            col \in 0..(nx - 1), j \in 0..(ny - 1),
            k \in 1..(IF diagonal = "crossed" THEN 4 ELSE 2)}

\* The point of the degree of freedom of a cell in Q = DG0: its midpoint.
Midpoint(cell) ==
    Height(cell.vertices[1].num + cell.vertices[2].num + cell.vertices[3].num,
           3 * cell.vertices[1].den)

\* locate_entities(mesh, dim, marker): the cells all of whose vertices
\* satisfy the marker, Omega_0 for which = 0 and Omega_1 for which = 1.
locate_entities(cells, which) ==
    {c \in cells : \A v \in 1..3 :
        IF which = 0 THEN Omega_0(c.vertices[v]) ELSE Omega_1(c.vertices[v])}

\* eval_kappa at one point: 0.1 above the interface, 1 below, 0 on it.
eval_kappa(y) ==
    IF 2 * y.num < y.den THEN KappaBottom
    ELSE IF 2 * y.num > y.den THEN KappaTop
    ELSE 0

\* The state after Q = FunctionSpace(mesh, ("DG", 0)).
KappaStart(nx, ny, diagonal) ==
    LET cells == Triangles(nx, ny, diagonal)
    IN  [at |-> "locate", nx |-> nx, ny |-> ny, diagonal |-> diagonal,
         cells |-> cells, cells_0 |-> {}, cells_1 |-> {},
         kappa |-> [c \in cells |-> 0], kappa2 |-> [c \in cells |-> 0],
         error |-> -1]

InitKappa ==
    /\ Ns = <<>>
    /\ Fresh
    /\ job = NoJob
    /\ frames = NoFrames
    /\ arrived = {}
    /\ rec = NoReplay
    /\ synth = NoSynth
    /\ fund = NotRun
    /\ heat = NotRun
    /\ newton = NotRun
    /\ em = NotRun
    /\ \E nx \in 1..MaxCols, ny \in 1..MaxRows,
          diagonal \in {"right", "crossed"} :
           sub = KappaStart(nx, ny, diagonal)

\* kappa = Function(Q); cells_0 and cells_1 = locate_entities(...)
KappaLocate ==
    /\ sub.at = "locate"
    /\ sub' = [sub EXCEPT !.cells_0 = locate_entities(sub.cells, 0),
                          !.cells_1 = locate_entities(sub.cells, 1),
                          !.at = "set_0"]
    /\ UNCHANGED exceptSub

\* kappa.x.array[cells_0] = np.full(len(cells_0), 1)
KappaSetBottom ==
    /\ sub.at = "set_0"
    /\ sub' = [sub EXCEPT
                  !.kappa = [c \in sub.cells |->
                                IF c \in sub.cells_0 THEN KappaBottom
                                ELSE sub.kappa[c]],
                  !.at = "set_1"]
    /\ UNCHANGED exceptSub

\* kappa.x.array[cells_1] = np.full(len(cells_1), 0.1)
KappaSetTop ==
    /\ sub.at = "set_1"
    /\ sub' = [sub EXCEPT
                  !.kappa = [c \in sub.cells |->
                                IF c \in sub.cells_1 THEN KappaTop
                                ELSE sub.kappa[c]],
                  !.at = "interpolate"]
    /\ UNCHANGED exceptSub

\* kappa2 = Function(Q); kappa2.interpolate(eval_kappa)
KappaInterpolate ==
    /\ sub.at = "interpolate"
    /\ sub' = [sub EXCEPT
                  !.kappa2 = [c \in sub.cells |-> eval_kappa(Midpoint(c))],
                  !.at = "error"]
    /\ UNCHANGED exceptSub

\* error = allreduce(assemble_scalar(form((kappa-kappa2)**2*dx))), in
\* hundredths times the area of a cell; print(error).
KappaError ==
    /\ sub.at = "error"
    /\ sub' = [sub EXCEPT
                  !.error = SumOver([c \in sub.cells |->
                                        (sub.kappa[c] - sub.kappa2[c])
                                            * (sub.kappa[c] - sub.kappa2[c])],
                                    sub.cells),
                  !.at = "printed"]
    /\ UNCHANGED exceptSub

NextKappa ==
    \/ KappaLocate
    \/ KappaSetBottom
    \/ KappaSetTop
    \/ KappaInterpolate
    \/ KappaError

SpecKappa == InitKappa /\ [][NextKappa]_<<vars, aux>>

\* ------------------------------------------------------------ the claims

\* Every error of the current loop is a positive finite number.
PositiveErrors == \A j \in 1..Len(Es) : Es[j].k = "fin" /\ Es[j].s = 1

\* The mesh sizes of the current loop are strictly decreasing.
DecreasingH == \A j \in 1..(Len(hs) - 1) : hs[j + 1].e < hs[j].e

\* An error of the current loop is exactly 0.
SomeZeroError == \E j \in 1..Len(Es) : Es[j].k = "zero"

\* r is the quotient of the logarithms of Eb/Ea and hb/ha, all four positive
\* and finite: r * (log hb - log ha) = log Eb - log Ea.
IsLogRatio(r, Ea, Eb, ha, hb) ==
    /\ r.k = "fin"
    /\ r.n * (hb.e - ha.e) = r.d * (Eb.e - Ea.e)

\* C1: with positive errors and strictly decreasing h, the rate at position
\* j is ln(E_j / E_(j-1)) / ln(h_j / h_(j-1)), a function of the two
\* adjacent samples alone.
C1_RateIsAdjacentLogRatio ==
    (pc = "rated" /\ PositiveErrors /\ DecreasingH)
        => \A j \in 1..(Len(Es) - 1) :
              /\ j \in DOMAIN rates
              /\ IsLogRatio(rates[j], Es[j], Es[j + 1], hs[j], hs[j + 1])

C1_Witness ==
    /\ pc = "rated"
    /\ Len(Es) = 3
    /\ PositiveErrors
    /\ DecreasingH
    /\ rates[1] # rates[2]
    /\ rates[1].n # 0

\* C2 as stated: with an error that is zero the rate computation fails with
\* DegenerateSample and returns no rate that is NaN or infinite.
C2_DegenerateSampleRaised ==
    (pc = "rated" /\ SomeZeroError)
        => /\ err = "DegenerateSample"
           /\ \A j \in DOMAIN rates : rates[j].k = "fin"

\* C2 amended: the rate computation raises nothing for a zero error (the
\* evaluators return no negative one): it returns the rates, and the rate of
\* a pair with exactly one zero error is infinite, that of two zero errors
\* is NaN.
C2_ZeroErrorGivesInfOrNaN ==
    pc = "rated"
        => /\ err = "none"
           /\ \A j \in 1..Len(Es) : Es[j].k = "zero" \/ (Es[j].k = "fin" /\ Es[j].s = 1)
           /\ \A j \in 1..(Len(Es) - 1) :
                 /\ j \in DOMAIN rates
                 /\ ((Es[j].k = "zero") # (Es[j + 1].k = "zero"))
                       => rates[j].k = "inf"
                 /\ (Es[j].k = "zero" /\ Es[j + 1].k = "zero")
                       => rates[j].k = "nan"

C2_Witness ==
    /\ pc = "rated"
    /\ Len(Es) = 3
    /\ Es[1].k = "fin"
    /\ Es[2].k = "zero"
    /\ Es[3].k = "zero"
    /\ rates[1].k = "inf"
    /\ rates[2].k = "nan"

\* C3 as stated: with mesh sizes that are not strictly decreasing the rate
\* computation fails with UnorderedSampleSequence and returns no rates.
C3_UnorderedSequenceRaised ==
    (pc = "rated" /\ ~DecreasingH) => err = "UnorderedSampleSequence"

\* C3 amended: the rate computation does not look at the order of the mesh
\* sizes and raises nothing: it returns one rate per adjacent pair, infinite
\* or NaN where the two mesh sizes are equal, and the same quotient of
\* logarithms where h grows and the errors are positive.
C3_UnorderedSequenceGivesRates ==
    pc = "rated"
        => /\ err = "none"
           /\ \A j \in 1..(Len(hs) - 1) :
                 /\ j \in DOMAIN rates
                 /\ hs[j + 1] = hs[j] => rates[j].k \in {"inf", "nan"}
                 /\ (/\ hs[j + 1].e > hs[j].e
                     /\ Es[j].k = "fin"
                     /\ Es[j + 1].k = "fin")
                       => IsLogRatio(rates[j], Es[j], Es[j + 1],
                                     hs[j], hs[j + 1])

C3_Witness ==
    /\ pc = "rated"
    /\ Len(hs) = 3
    /\ hs[2] = hs[1]
    /\ hs[3].e > hs[2].e
    /\ PositiveErrors
    /\ rates[1].k = "nan"
    /\ rates[2].k = "fin"
    /\ rates[2].n # 0

\* C4 as stated: the rate array has len(samples) - 1 entries for every
\* sample sequence.
C4_LengthIsLenMinusOne == pc = "rated" => Len(rates) = Len(Es) - 1

\* C4 amended: the rate array has len(samples) - 1 entries for every
\* sample sequence that is not empty, and none for the empty one.
C4_LengthOfRates ==
    pc = "rated"
        => Len(rates) = (IF Len(Es) = 0 THEN 0 ELSE Len(Es) - 1)

C4_Witness ==
    /\ pc = "rated"
    /\ Len(Es) >= 2
    /\ Len(rates) = Len(Es) - 1

\* The sample lines printed in the current loop.
LoopLines ==
    SelectSeq(out, LAMBDA l : /\ l.line = "sample"
                              /\ l.study = study
                              /\ l.degree = CurDegree)

\* The error the current loop's evaluator gives for the solution of mesh N.
ErrorOfSolve(N) ==
    Evaluate(solve_poisson(N, CurDegree, amps[N]).uh, U_numpy).value

\* C5: the loop records one sample per entry of Ns, in the order of Ns: the
\* sample at position j has h = 1/Ns[j] and the error of the solve made with
\* Ns[j].
C5_OneSamplePerResolutionInOrder ==
    pc \in {"loop", "rated"}
        => /\ Len(Es) = Len(Ns)
           /\ Len(hs) = Len(Ns)
           /\ Len(LoopLines) = i
           /\ pc = "rated" => i = Len(Ns)
           /\ \A j \in 1..i :
                 /\ hs[j] = FRecip(Ns[j])
                 /\ Es[j] = ErrorOfSolve(Ns[j])
                 /\ LoopLines[j].h = hs[j]
                 /\ LoopLines[j].E = Es[j]

C5_Witness ==
    /\ pc = "rated"
    /\ Len(Ns) = 3
    /\ Ns[1] > Ns[2]
    /\ Ns[1] # Ns[3]
    /\ Es[1] # Es[3]
    /\ Es[1] # Es[2]

\* The calls of solve_poisson made by the current loop.
LoopCalls ==
    SelectSeq(calls, LAMBDA c : c.study = study /\ c.degree = CurDegree)

\* The evaluator of the current loop.
NormOfStudy == IF study = 3 THEN "error_infinity" ELSE "error_L2"

\* C6 as stated: a loop calls solve_poisson once per resolution, and the
\* sample it records holds the L2 error and the infinity error of that one
\* solution pair.
C6_SampleHoldsBothNorms ==
    pc \in {"loop", "rated"}
        => /\ Len(LoopCalls) = i
           /\ \A j \in 1..i :
                 /\ LoopCalls[j].N = Ns[j]
                 /\ LoopCalls[j].norms = {"error_L2", "error_infinity"}

\* C6 amended: a loop calls solve_poisson once per entry of Ns with
\* (N, degree), and the sample it records holds h = 1/N and one error of
\* that solution pair: the L2 error in the L2 loops, the infinity error in
\* the infinity loop, which solves every (N, degree) anew.
C6_SampleHoldsOneNorm ==
    /\ pc \in {"loop", "rated"}
          => /\ Len(LoopCalls) = i
             /\ Len(LoopLines) = i
             /\ \A j \in 1..i :
                   /\ LoopCalls[j].N = Ns[j]
                   /\ LoopCalls[j].degree = CurDegree
                   /\ LoopCalls[j].norms = {NormOfStudy}
                   /\ LoopLines[j].h = FRecip(Ns[j])
                   /\ LoopLines[j].E = ErrorOfSolve(Ns[j])
    /\ pc = "done"
          => Len(calls) = 1 + Len(Ns) * (1 + 2 * Len(degrees))

C6_Witness ==
    /\ pc = "rated"
    /\ study = 3
    /\ dIdx = 2
    /\ Len(Ns) = 3
    /\ \A j \in 1..3 : LoopCalls[j].norms = {"error_infinity"}
    /\ \E k \in DOMAIN calls :
          /\ calls[k].N = Ns[1]
          /\ calls[k].degree = CurDegree
          /\ calls[k].norms = {"error_L2"}

StepAt(op, arg) ==
    LET at == {k \in DOMAIN lastEval.steps :
                  /\ lastEval.steps[k].op = op
                  /\ lastEval.steps[k].arg = arg}
    IN  IF at = {} THEN 0 ELSE CHOOSE k \in at : \A m \in at : k <= m

\* C9: error_L2 interpolates the approximate and the exact solution into
\* one space, of the family of the approximate solution and of its degree
\* raised by degree_raise (3 when not given), and takes the difference of
\* the two coefficient arrays after that.
C9_BothInterpolatedIntoRaisedSpace ==
    (lastEval.name = "error_L2" /\ lastEval.raised = "none")
        => LET V == lastEval.uh.space
               W == [mesh |-> V.mesh, family |-> V.family,
                     degree |-> V.degree + 3]
           IN  /\ lastEval.u_W.space = W
               /\ lastEval.u_ex_W.space = W
               /\ lastEval.e_W.space = W
               /\ DOMAIN lastEval.u_W.array = 1..(V.degree + 3)
               /\ DOMAIN lastEval.u_ex_W.array = 1..(V.degree + 3)
               /\ \A k \in DOMAIN lastEval.steps :
                     lastEval.steps[k].space = W
               /\ 0 < StepAt("interpolate", "uh")
               /\ StepAt("interpolate", "uh") < StepAt("interpolate", "u_ex")
               /\ StepAt("interpolate", "u_ex") < StepAt("subtract", "e_W")
               /\ \A j \in 1..(V.degree + 3) :
                     lastEval.e_W.array[j] =
                        lastEval.u_W.array[j] - lastEval.u_ex_W.array[j]

C9_Witness ==
    /\ lastEval.name = "error_L2"
    /\ lastEval.raised = "none"
    /\ study = 1
    /\ lastEval.uh.space.degree = 1
    /\ lastEval.u_W.space.degree = 4
    /\ \E j \in 1..4 : lastEval.e_W.array[j] # 0

\* C10: the value error_L2 returns is never negative, and it is 0 only if
\* the two interpolated functions have the same coefficient at every degree
\* of freedom of the higher order space.
C10_NonNegativeAndZeroOnlyIfEqual ==
    (lastEval.name = "error_L2" /\ lastEval.raised = "none")
        => /\ lastEval.value.k \in {"zero", "fin"}
           /\ lastEval.value.s = 1
           /\ lastEval.value.k = "zero"
                 => \A j \in DOMAIN lastEval.u_W.array :
                       lastEval.u_W.array[j] = lastEval.u_ex_W.array[j]

C10_Witness ==
    /\ lastEval.name = "error_L2"
    /\ lastEval.raised = "none"
    /\ lastEval.value.k = "zero"
    /\ lastEval.uh.space.degree = 2
    /\ lastEval.u_W.array = lastEval.u_ex_W.array

\* The squared error process q integrates in a call of error_L2: the
\* squares of the differences of the two interpolated functions at the
\* degrees of freedom of W it owns.
LocalIntegral(q) ==
    LET W == [mesh |-> job.uh.space.mesh, family |-> job.uh.space.family,
              degree |-> job.uh.space.degree + job.degree_raise]
    IN  SumOver([j \in 1..W.degree |->
                    (EvalFunction(job.uh, j) - ExactAt(j))
                       * (EvalFunction(job.uh, j) - ExactAt(j))],
                {j \in 1..W.degree : (j % NRanks) = (q % NRanks)})

\* The sum over all processes of the squared errors they integrate.
GlobalIntegral == SumOver([q \in Ranks |-> LocalIntegral(q)], Ranks)

\* The processes on which the call has taken the value of its all-reduce.
Reduced == {r \in Ranks : frames[r].at \in {"reduced", "returned"}}

\* The processes on which the call has returned.
Returned == {r \in Ranks : frames[r].at = "returned"}

\* C11 as stated: error_L2 returns on every process the square root of
\* the sum over all processes of the local integrals, and when a process
\* takes the square root and returns the all-reduce is completed on all
\* processes.
C11_AllReduceCompletedEverywhere ==
    job.name = "error_L2"
        => \A r \in Returned :
              /\ frames[r].returned = FSqrt(GlobalIntegral)
              /\ \A q \in Ranks : q \in Reduced

\* C11 amended: error_L2 returns on every process the same value, the
\* square root of the sum over all processes of the local integrals; a
\* process takes the square root and returns only after every process has
\* entered the all-reduce with its local integral and its own all-reduce
\* has given it the sum, while the all-reduce may still be under way on
\* other processes.
C11_SqrtOfSumOverAllRanks ==
    job.name = "error_L2"
        => /\ \A r \in Reduced :
                 /\ arrived = Ranks
                 /\ \A q \in Ranks :
                       /\ frames[q].at \in {"allreduce", "reduced", "returned"}
                       /\ frames[q].error_local = LocalIntegral(q)
                 /\ frames[r].error_global = GlobalIntegral
           /\ \A r \in Returned :
                 frames[r].returned = FSqrt(GlobalIntegral)
           /\ \A r, q \in Returned : frames[r].returned = frames[q].returned

C11_Witness ==
    /\ job.name = "error_L2"
    /\ frames[1].at = "returned"
    /\ frames[2].at = "allreduce"
    /\ frames[1].error_local > 0
    /\ frames[2].error_local > 0
    /\ frames[1].returned = FSqrt(GlobalIntegral)
    /\ frames[1].returned # FSqrt(frames[1].error_local)

\* The largest absolute difference, among the degrees of freedom process q
\* holds, between the approximate solution and the exact solution at its
\* interpolation points.
LocalMaximum(q) ==
    LET n == job.uh.space.degree
        held == {j \in 1..n : j = 1 \/ (j % NRanks) = (q % NRanks)}
        diff == {Abs(job.uh.array[j] - ExactAt(j)) : j \in held}
    IN  CHOOSE m \in diff : \A d \in diff : d <= m

\* The largest of the local maxima of all processes.
GlobalMaximum ==
    CHOOSE m \in {LocalMaximum(q) : q \in Ranks} :
        \A q \in Ranks : LocalMaximum(q) <= m

\* C12: error_infinity interpolates the exact solution into the space of
\* the approximate solution itself, of the same degree, and returns on
\* every process the same value: the maximum over all processes of the
\* largest absolute difference of the two coefficient arrays the process
\* holds.
C12_InfinityIsMaxOverAllRanks ==
    job.name = "error_infinity"
        => /\ \A r \in Ranks :
                 frames[r].at \in {"interpolated", "local", "allreduce",
                                   "reduced", "returned"}
                    => /\ frames[r].u_ex_W.space = job.uh.space
                       /\ DOMAIN frames[r].u_ex_W.array
                             = DOMAIN job.uh.array
                       /\ frames[r].u_W = None
           /\ \A r \in Ranks :
                 frames[r].at \in {"local", "allreduce", "reduced", "returned"}
                    => frames[r].error_local = LocalMaximum(r)
           /\ \A r \in Returned : frames[r].returned = FInt(GlobalMaximum)
           /\ \A r, q \in Returned : frames[r].returned = frames[q].returned

C12_Witness ==
    /\ job.name = "error_infinity"
    /\ Returned = Ranks
    /\ frames[1].error_local # frames[2].error_local
    /\ frames[1].returned = frames[2].returned
    /\ frames[1].returned.k = "fin"
    /\ job.uh.space.degree = 2

\* The functions a call has created on process r so far.
Created(r) ==
    {name \in {"u_W", "u_ex_W", "e_W"} : frames[r][name] # None}

\* C13: error_L2 and error_infinity leave their arguments as they were
\* handed in: on every process and at every point of the call the
\* approximate solution (space and coefficient array) and the
\* exact-solution object are those of the call, whatever the call has
\* written to the functions it created.
C13_ArgumentsUnchanged ==
    \A r \in Ranks :
        frames[r].at # "idle"
            => /\ frames[r].uh = job.uh
               /\ frames[r].uh.array = job.uh.array
               /\ frames[r].u_ex = job.u_ex

C13_Witness ==
    /\ Returned = Ranks
    /\ job.name = "error_L2"
    /\ job.u_ex = U_ufl
    /\ Created(1) = {"u_W", "u_ex_W", "e_W"}
    /\ frames[1].u_W.array # frames[1].u_ex_W.array
    /\ frames[1].u_W.space # job.uh.space
    /\ frames[1].uh = job.uh
    /\ frames[2].uh = job.uh

\* The samples (h, error) printed by the loop of study st and degree d.
SamplesOf(st, d) ==
    LET lines == SelectSeq(out, LAMBDA l : /\ l.line = "sample"
                                          /\ l.study = st
                                          /\ l.degree = d)
    IN  [j \in 1..Len(lines) |-> <<lines[j].h, lines[j].E>>]

\* The norm a printed line belongs to: the L2 norm in cells 5 and 7, the
\* infinity norm in cell 9.
NormOfLine(l) == IF l.study = 3 THEN "error_infinity" ELSE "error_L2"

IsSyntheticPowerLaw ==
    /\ synth # NoSynth
    /\ \A j \in 1..Len(Es) : Es[j] = PowerLaw(synth.C, hs[j], synth.r)
    /\ \A j \in 1..(Len(hs) - 1) : hs[j + 1].e = hs[j].e - 1

\* C15: for samples E_j = C * h_j^r with C > 0 and h halved from one
\* sample to the next, every rate computed is r (C a power of two and r an
\* integer, for which the quotients and logarithms are exact).
C15_PowerLawGivesItsRate ==
    (pc = "rated" /\ IsSyntheticPowerLaw)
        => /\ Len(Es) >= 1 => Len(rates) = Len(Es) - 1
           /\ \A j \in 1..(Len(Es) - 1) :
                 /\ j \in DOMAIN rates
                 /\ rates[j] = RFin(synth.r, 1)

C15_Witness ==
    /\ pc = "rated"
    /\ IsSyntheticPowerLaw
    /\ Len(Es) = 4
    /\ synth.r = 3
    /\ synth.C.e = -1
    /\ rates = <<RFin(3, 1), RFin(3, 1), RFin(3, 1)>>

\* The calls of solve_poisson made in the loops that returned.
Returns == SelectSeq(calls, LAMBDA c : c.study >= 1 /\ ~c.raised)

\* The approximate solution the last of them returned.
LastPair ==
    LET last == Returns[Len(Returns)]
    IN  solve_poisson(last.N, last.degree, amps[last.N]).uh

\* C16 as stated: once the error of a pass has been recorded its solution
\* pair is no longer held, the last pass of a loop included: while the
\* rates are computed and after the run no pair is held.
C16_PairReleasedOnceRecorded ==
    (pc \in {"rated", "done"} /\ Len(Ns) >= 1) => uh = None

\* C16 amended: a solution pair is handed to exactly one evaluator call,
\* in the pass that made it, and no earlier pair is kept; but the names
\* uh and u_ex hold the pair of the latest pass until the next call of
\* solve_poisson returns, so the pair of the last pass of a loop is held
\* while the rates are computed and after the run.
C16_LatestPairHeldUntilNextSolve ==
    /\ \A k \in DOMAIN calls :
          (calls[k].study >= 1 /\ ~calls[k].raised)
             => Cardinality(calls[k].norms) = 1
    /\ (pc \in {"loop", "rated"} /\ err = "none" /\ i >= 1)
          => /\ Len(LoopCalls) = i
             /\ uh = solve_poisson(Ns[i], CurDegree, amps[Ns[i]]).uh
             /\ u_ex = U_ufl
    /\ (pc \in {"alloc", "loop", "rated", "done"} /\ Len(Returns) >= 1)
          => /\ uh # None
             /\ uh = LastPair

C16_Witness ==
    /\ pc = "done"
    /\ Len(Ns) = 3
    /\ Ns[1] # Ns[3]
    /\ uh = solve_poisson(Ns[3], 2, amps[Ns[3]]).uh
    /\ uh # solve_poisson(Ns[1], 2, amps[Ns[1]]).uh
    /\ uh # None

\* C17: a sample once recorded is never changed: a pass of a loop leaves
\* the samples of the earlier passes as they are, computing the rates
\* leaves both arrays as they are and builds the rates from them alone, a
\* printed line is never changed, and the arrays stay as they are until
\* the next loop creates its own.
C17_RecordedSamplesNeverChange ==
    [][/\ pc = "loop"
             => \A j \in 1..i : /\ j \in DOMAIN Es' /\ Es'[j] = Es[j]
                                /\ j \in DOMAIN hs' /\ hs'[j] = hs[j]
       /\ (pc = "loop" /\ pc' = "rated")
             => /\ Es' = Es
                /\ hs' = hs
                /\ rates' = Rates(Es, hs)
       /\ pc = "rated" => (Es' = Es /\ hs' = hs /\ rates' = rates)
       /\ Len(out') >= Len(out)
       /\ SubSeq(out', 1, Len(out)) = out]_vars

C17_Witness ==
    /\ pc = "rated"
    /\ study = 2
    /\ dIdx = 2
    /\ Len(Es) = 3
    /\ Es[1] # Es[2]
    /\ Es[2] # Es[3]
    /\ rates = Rates(Es, hs)
    /\ out[Len(out)].rates = rates
    /\ \E k \in 1..(Len(out) - 1) :
          out[k].line = "rates" /\ out[k].degree # CurDegree

\* The distance of a printed rate from degree + 1, in units of the print.
OffExpected(rate, degree) == Abs(rate - (degree + 1) * RateUnit)

\* The recorded loop was run over N = [4, 8, 16, 32].
FirstFourResolutions ==
    /\ rec.at = "rated"
    /\ Ns = <<4, 8, 16, 32>>

IncreasingNs ==
    /\ \A j \in 1..Len(Ns) : Ns[j] > 0
    /\ \A j \in 1..(Len(Ns) - 1) : Ns[j] < Ns[j + 1]

\* a < b for two positive finite floats.
FLess(a, b) ==
    /\ a.k = "fin" /\ a.s = 1
    /\ b.k = "fin" /\ b.s = 1
    /\ a.e < b.e

\* C19: with positive, strictly increasing resolutions the mesh sizes
\* recorded so far, hs[j] = 1/Ns[j], are strictly decreasing, and so are
\* those handed to the rate computation.
C19_IncreasingNsGiveDecreasingHs ==
    (pc \in {"loop", "rated"} /\ IncreasingNs)
        => /\ \A j \in 1..i : hs[j] = FRecip(Ns[j])
           /\ \A j \in 1..(i - 1) : FLess(hs[j + 1], hs[j])
           /\ pc = "rated" => (i = Len(Ns) /\ DecreasingH)

C19_Witness ==
    /\ pc = "rated"
    /\ IncreasingNs
    /\ Len(Ns) = 3
    /\ FLess(hs[3], hs[2])
    /\ FLess(hs[2], hs[1])
    /\ Len(rates) = 2

\* The lines printed before the current loop began.
EarlierLines ==
    SelectSeq(out, LAMBDA l : <<l.study, l.degree>> # <<study, CurDegree>>)

\* C20: in the per-degree loops of cells 7 and 9 the arrays are created
\* anew for every degree (all zeros, of the length of Ns, before the first
\* pass; zero beyond the passes made), the rates of a degree are computed
\* only after len(Ns) samples of that degree have been recorded, and from
\* them alone: every entry is the error of this degree's solve of Ns[j]
\* with this loop's evaluator, none a value of an earlier loop or an entry
\* left unfilled.
C20_RatesFromThisDegreeOnly ==
    (study \in {2, 3} /\ pc \in {"loop", "rated"} /\ err = "none")
        => /\ Len(Es) = Len(Ns)
           /\ Len(hs) = Len(Ns)
           /\ \A j \in (i + 1)..Len(Ns) : Es[j] = FZero /\ hs[j] = FZero
           /\ \A j \in 1..i :
                 /\ Es[j] = ErrorOfSolve(Ns[j])
                 /\ hs[j] = FRecip(Ns[j])
                 /\ LoopLines[j].E = Es[j]
           /\ Len(LoopLines) = i
           /\ Len(LoopCalls) = i
           /\ pc = "rated"
                 => /\ i = Len(Ns)
                    /\ rates = Rates([j \in 1..Len(Ns) |->
                                         ErrorOfSolve(Ns[j])],
                                     [j \in 1..Len(Ns) |-> FRecip(Ns[j])])
                    /\ out[Len(out)] = RatesLine(rates)

C20_Witness ==
    /\ study = 3
    /\ dIdx = 2
    /\ pc = "rated"
    /\ Len(Ns) = 3
    /\ Es[1] # Es[2]
    /\ \E k \in DOMAIN EarlierLines :
          /\ EarlierLines[k].line = "sample"
          /\ EarlierLines[k].h = hs[1]
          /\ EarlierLines[k].E # Es[1]
          /\ EarlierLines[k].E # FZero
    /\ Len(rates) = 2

\* C21 as stated: both values printed by rank 0 in the fundamentals
\* notebook are global: Error_L2 is the square root of the sum over all
\* processes of the local integrals, Error_max the maximum over all
\* processes of the largest deviation among the degrees of freedom of the
\* process.
C21_PrintedErrorsAreGlobal ==
    (fund.at = "run" /\ fund.out # <<>>)
        => /\ fund.out[1].name = "Error_L2"
           /\ fund.out[1].value =
                 FSqrt(SumOver([q \in Ranks |-> FundAssemble(fund.dev, q)],
                               Ranks))
           /\ fund.out[2].name = "Error_max"
           /\ fund.out[2].value =
                 FInt(MaxOf({FundMax(fund.dev, q) : q \in Ranks}))


\* s is an initial part of t.
IsPrefix(s, t) ==
    /\ Len(s) <= Len(t)
    /\ \A k \in 1..Len(s) : s[k] = t[k]

\* The positions inside the body of the diffusion time loop.
InHeatStep ==
    {"zero", "assemble", "lifting", "ghost", "set_bc", "solve", "scatter",
     "copy", "write", "plot"}

\* C22: in every step of the diffusion time loop the operations on the
\* vectors occur in the order zero b, assemble b, lifting, ghost
\* accumulation, boundary values, solve, scatter forward, copy to u_n; the
\* right-hand side of step k+1 is assembled from the solution of step k
\* alone, and after the copy u_n holds the new solution in its owned and in
\* its ghost part.
C22_StepOrder ==
    heat.at \in InHeatStep =>
        /\ IsPrefix(heat.trace,
                    <<"zero", "assemble", "lifting", "ghost", "set_bc",
                      "solve", "scatter", "copy">>)
        /\ Len(heat.trace) >= 2 => heat.b.src = {heat.i}
        /\ Len(heat.trace) >= 6 => heat.uh.own = heat.i + 1
        /\ Len(heat.trace) >= 8 => heat.u_n = Dist(heat.i + 1, heat.i + 1)

\* The right-hand side of the second step has been assembled, from the
\* solution of the first.
C22_Witness ==
    /\ heat.at = "lifting"
    /\ heat.i = 1
    /\ heat.b.src = {1}
    /\ heat.trace = <<"zero", "assemble">>

\* C23: the matrix A is assembled exactly once, before the time loop; no
\* step of the loop changes A, the operator of the solver, the number of
\* assemblies or the temporal parameters.
C23_MatrixAssembledOnce ==
    [][/\ heat.at \in InHeatStep \cup {"for"} =>
              /\ heat'.A = heat.A
              /\ heat'.op = heat.op
              /\ heat'.assembled = heat.assembled
              /\ heat'.dt = heat.dt
              /\ heat'.num_steps = heat.num_steps
       /\ heat'.at \in InHeatStep \cup {"for", "end"} =>
              /\ heat'.assembled = 1
              /\ heat'.A = 1
              /\ heat'.op = heat'.A]_<<vars, aux>>

\* Two steps of the loop have run on the matrix of the one assembly.
C23_Witness ==
    /\ heat.at = "end"
    /\ heat.i >= 2
    /\ heat.assembled = 1
    /\ heat.op = heat.A
    /\ heat.uh = Dist(heat.i, heat.i)

\* The run is over: num_steps iterations, num_steps + 1 snapshots at
\* t = 0, dt, ..., T with strictly increasing times, the k-th holding the
\* solution of step k - 1, and the file closed.
HeatFinished ==
    /\ heat.at = "end"
    /\ heat.i = heat.num_steps
    /\ heat.file = "closed"
    /\ Len(heat.snaps) = heat.num_steps + 1
    /\ \A k \in 1..Len(heat.snaps) :
           /\ heat.snaps[k].t = Fraction((k - 1) * FinalTime, heat.num_steps)
           /\ heat.snaps[k].u = Dist(k - 1, k - 1)
    /\ \A k \in 1..(Len(heat.snaps) - 1) :
           TLess(heat.snaps[k].t, heat.snaps[k + 1].t)
    /\ heat.snaps[Len(heat.snaps)].t = RFin(FinalTime, 1)

C25_ErrorsOnlyWhenConverged ==
    newton.at \notin {"idle", "solve"} =>
        /\ newton.out # <<>> => newton.converged
        /\ newton.at \in {"print", "cell10", "max", "end"} => newton.converged
        /\ ~newton.converged =>
               /\ newton.at \in {"assert", "stopped"}
               /\ newton.out = <<>>
               /\ newton.error_L2 = FNaN
               /\ newton.error_max = FNaN
        /\ newton.at = "stopped" =>
               /\ newton.err = "AssertionError"
               /\ ~newton.converged

\* A solve that did not converge has stopped the run at the assertion.
C25_Witness ==
    /\ newton.at = "stopped"
    /\ ~newton.converged
    /\ newton.n >= 1
    /\ newton.out = <<>>


\* The tags of the groups that hold the surface id.
TagsOf(id) ==
    {em.groups[k].tag : k \in {j \in 1..Len(em.groups) :
                                  id \in em.groups[j].entities}}

\* The surfaces of one kind of fragment.
OfKind(kind) == {d.id : d \in {f \in Fragments(em.N) : Classify(f) = kind}}

\* No tag is given to two groups, a tag given to an inner wire lies in
\* 2..N+1 and one given to an outer wire in N+2..2N+1; after the loop every
\* fragment is in exactly one group: the vacuum in group 0, the iron ring
\* in group 1, the inner wires one each in 2..N+1, the outer wires one each
\* in N+2..2N+1.
TagsPartition ==
    /\ \A j, k \in 1..Len(em.groups) :
           em.groups[j].tag = em.groups[k].tag => j = k
    /\ \A id \in OfKind("inner") : TagsOf(id) \subseteq 2..(em.N + 1)
    /\ \A id \in OfKind("outer") :
           TagsOf(id) \subseteq (em.N + 2)..(2 * em.N + 1)
    /\ em.at = "tagged" =>
           /\ \A d \in Fragments(em.N) : Cardinality(TagsOf(d.id)) = 1
           /\ \A id \in OfKind("background") : TagsOf(id) = {0}
           /\ \A id \in OfKind("iron") : TagsOf(id) = {1}
           /\ {TagsOf(id) : id \in OfKind("inner")} =
                  {{t} : t \in 2..(em.N + 1)}
           /\ {TagsOf(id) : id \in OfKind("outer")} =
                  {{t} : t \in (em.N + 2)..(2 * em.N + 1)}
           /\ Len(em.groups) = 2 * em.N + 2

\* C26 as stated: the groups partition the fragments with the tags 0, 1,
\* 2..N+1 and N+2..2N+1, and the inner counter never takes a value of the
\* outer range N+2..2N+1.
C26_InnerCounterBelowOuterRange ==
    em.at \in {"loop", "tagged"} =>
        /\ TagsPartition
        /\ em.inner_tag \notin (em.N + 2)..(2 * em.N + 1)

\* C26, amended: the groups partition the fragments with the tags 0, 1,
\* 2..N+1 and N+2..2N+1; the inner counter is at most N+1 whenever a tag
\* is taken from it and stops at N+2, the first outer tag, after the last
\* inner wire.
C26_TagsPartitionFragments ==
    em.at \in {"loop", "tagged"} =>
        /\ TagsPartition
        /\ em.inner_tag \in 2..(em.N + 2)
        /\ em.inner_tag = 2 + Cardinality(OfKind("inner") \ {d.id : d \in em.todo})
        /\ em.outer_tag \in (em.N + 2)..(2 * em.N + 2)

\* The loop is over for two windings: six groups, the counters at 4 and 6.
C26_Witness ==
    /\ em.at = "tagged"
    /\ em.N = 2
    /\ Len(em.groups) = 6
    /\ em.inner_tag = 4
    /\ em.outer_tag = 6


BcastDone ==
    /\ \A r \in Ranks :
           /\ em.on[r].at = "done"
           /\ em.on[r].bcasts = 1
           /\ em.on[r].cell_id = em.on[1].cell_id
           /\ em.on[r].num_nodes = em.on[1].num_nodes
    /\ em.wire = <<[cell_id |-> em.on[1].cell_id,
                    num_nodes |-> em.on[1].num_nodes]>>
    /\ \E e \in HighestDimension(em.topologies) :
           /\ em.on[1].cell_id = e.id
           /\ em.on[1].num_nodes = e.num_nodes

\* C28: in the mesh-loading cell every process takes part in exactly one
\* broadcast with root 0 and none blocks forever: every process gets
\* through the cell, and from then on cell_id and num_nodes are on every
\* process the values computed on rank 0.
C28_OneBroadcastEveryRank == <>[]BcastDone

\* All processes are through the cell with the values of a triangle mesh
\* that also held lines.
C28_Witness ==
    /\ BcastDone
    /\ Cardinality(em.topologies) >= 2
    /\ \A r \in Ranks : em.on[r].cell_id = 2 /\ em.on[r].num_nodes = 3


\* C29: whenever a process starts to read mesh.xdmf or mt.xdmf, rank 0 has
\* finished writing both files.
C29_WritesBeforeReads ==
    sub.at = "files" =>
        \A r \in Ranks :
            \A k \in 1..Len(sub.on[r].seen) :
                /\ sub.on[r].seen[k].mesh = "complete"
                /\ sub.on[r].seen[k].mt = "complete"


\* The mesh has cell edges on the line y = 0.5: an even number of rows.
EdgesOnInterface == sub.ny % 2 = 0

\* C30: on a unit-square mesh with cell edges on y = 0.5, once both are
\* set kappa from the cell lists of Omega_0 and Omega_1 equals kappa2
\* interpolated from eval_kappa on every cell, every cell is in exactly one
\* of the two lists and holds 1 or 0.1, and the assembled squared
\* difference is exactly 0.
C30_KappaDefinitionsAgree ==
    (sub.at \in {"set_0", "set_1", "interpolate", "error", "printed"}
        /\ EdgesOnInterface) =>
        /\ \A c \in sub.cells : (c \in sub.cells_0) # (c \in sub.cells_1)
        /\ sub.at \in {"interpolate", "error", "printed"} =>
               \A c \in sub.cells : sub.kappa[c] \in {KappaBottom, KappaTop}
        /\ sub.at \in {"error", "printed"} =>
               \A c \in sub.cells : sub.kappa[c] = sub.kappa2[c]
        /\ sub.at = "printed" => sub.error = 0

\* The difference of the two kappas has been printed for a mesh of four
\* rows cut by both diagonals, with cells on both sides of the interface.
C30_Witness ==
    /\ sub.at = "printed"
    /\ sub.ny = 4
    /\ sub.diagonal = "crossed"
    /\ sub.error = 0
    /\ \E c, d \in sub.cells :
           sub.kappa[c] = KappaBottom /\ sub.kappa2[d] = KappaTop

====
